---------------------------- MODULE Spec2Model ----------------------------
(***************************************************************************)
(* Model of the opinion-spikes monitor: the tick store (storage.ts), the    *)
(* tick collector (collector.ts: pollTicks, collectTickForStream), the      *)
(* EWMA detector (detector.ts: evaluateStream) and the catalog walker       *)
(* (opinion.ts: listMarketsPaginated).                                      *)
(*                                                                         *)
(* Units.  Prices are integers in thousandths (0.70 is 700).  Volumes are   *)
(* integers.  The clock `now` and the alert windows are in hours.  The      *)
(* EWMA means are fixed-point numbers with two more decimal digits than     *)
(* the observation (a mean of 432.17 thousandths is 43217); variances are   *)
(* in squared observation units; Z-scores and the adjusted score are in     *)
(* hundredths (2.5 is 250).  Divisions round down, where the program uses   *)
(* IEEE doubles.                                                            *)
(*                                                                         *)
(* The retention limits and the batch size are scaled down (the program     *)
(* has RAW_TICKS_LIMIT = 400, TICKS_LIMIT = 120, BATCH_SIZE = 60, page      *)
(* size 100, 16 page workers); everything else keeps the program's value.   *)
(***************************************************************************)
EXTENDS Integers, Sequences, FiniteSets, TLC

\* ------------------------------------------------------------------ bounds
\* storage.ts:150 RAW_TICKS_LIMIT = 400, scaled
RAW_TICKS_LIMIT == 3
\* storage.ts:149 TICKS_LIMIT = 120, scaled
TICKS_LIMIT == 2
\* collector.ts:19 BATCH_SIZE = 60, scaled
BATCH_SIZE == 2
\* config.ts:49 publicTopicPageSize = 100, scaled
PAGE_SIZE == 2
\* config.ts:48 publicTopicPageWorkers = 16, scaled
PAGE_WORKERS == 2
\* pages of the catalog that may hold entries; every later page is empty
MaxPage == 3
\* markets of the venue
NumMarkets == 3
\* concurrent callers of pollTicks (the startup call and timer callbacks)
NumPollers == 2
\* observations collected in one run of the model
MaxTicks == 3
\* last hour of the clock
MaxTime == 8
\* ticks a warm market has consumed before the run starts
WarmTicks == 40
\* accepted ticks of a market whose estimator has settled
ClusterTicks == 150

\* the calls of refreshStreams that may run beside the one walk follows
MaxOverlap == 1

\* ------------------------------------------------------- program constants
MIN_TOTAL_VOLUME == 3000
MIN_DELTA_VOLUME == 80
EWMA_SPAN == 20
ALPHA_NUM == 2
ALPHA_DEN == EWMA_SPAN + 1
MIN_TICKS_FOR_DETECTION == 20
ADJUSTED_Z_THRESHOLD == 250
MIN_STD_PRICE == 5
MIN_STD_VOLUME == 20
DEEP_EXTREME_ZONE_MIN_CHANGE == 70
NEAR_EXTREME_ZONE_MIN_CHANGE == 100
MIDDLE_ZONE_MIN_CHANGE == 150
ALERT_COOLDOWN == 6
DUPLICATE_ALERT_WINDOW == 6
VOLUME_BOOST_THRESHOLD == 100
VOLUME_BOOST_FACTOR == 25

Markets == 1..NumMarkets
Pollers == 1..NumPollers

\* ----------------------------------------------------------------- helpers
Max(a, b) == IF a >= b THEN a ELSE b
Min(a, b) == IF a <= b THEN a ELSE b
Abs(a) == IF a >= 0 THEN a ELSE 0 - a

RECURSIVE SqrtSearch(_, _, _)
SqrtSearch(v, lo, hi) ==
  IF lo >= hi THEN lo
  ELSE LET mid == (lo + hi + 1) \div 2
       IN  IF mid * mid <= v THEN SqrtSearch(v, mid, hi)
                             ELSE SqrtSearch(v, lo, mid - 1)

\* Math.sqrt, rounded down
Sqrt(v) == SqrtSearch(v, 0, 4096)

Range(s) == {s[i] : i \in 1..Len(s)}

\* the subsequence of s at the positions of K, in order
RECURSIVE Pick(_, _, _)
Pick(s, K, i) ==
  IF i > Len(s) THEN <<>>
  ELSE (IF i \in K THEN <<s[i]>> ELSE <<>>) \o Pick(s, K, i + 1)

RECURSIVE IsSubSeq(_, _)
IsSubSeq(a, b) ==
  IF a = <<>> THEN TRUE
  ELSE IF b = <<>> THEN FALSE
  ELSE IF Head(a) = Head(b) THEN IsSubSeq(Tail(a), Tail(b))
  ELSE IsSubSeq(a, Tail(b))

\* ------------------------------------------------------------------- store
\* A tick table of one market is the sequence of its rows in rowid order.
TickRecord(ts, yesPrice, volume, deltaVolume) ==
  [ts |-> ts, yesPrice |-> yesPrice, volume |-> volume, deltaVolume |-> deltaVolume]

\* The sets of positions "ORDER BY ts DESC LIMIT n" may select: every set of
\* min(n, length) rows such that no unselected row has a larger ts.  Rows of
\* equal ts come in an order SQL leaves open, so every choice is possible.
TopByTs(rows, n) ==
  {K \in SUBSET (1..Len(rows)) :
     /\ Cardinality(K) = Min(n, Len(rows))
     /\ \A i \in K, j \in (1..Len(rows)) \ K : rows[i].ts >= rows[j].ts}

\* "DELETE ... WHERE id NOT IN (SELECT id ... ORDER BY ts DESC LIMIT n)":
\* the tables a prune may leave
Prune(rows, n) == {Pick(rows, K, 1) : K \in TopByTs(rows, n)}

pruneTicksStmt(rows) == Prune(rows, TICKS_LIMIT)
\* mutant: the raw prune keeps one row too many
pruneRawTicksStmt_OffByOne(rows) == Prune(rows, RAW_TICKS_LIMIT + 1)
pruneRawTicksStmt(rows) == Prune(rows, RAW_TICKS_LIMIT)

\* insertRawTickWithPrune: the raw tables the transaction may leave
insertRawTickWithPrune(rows, tick) == pruneRawTicksStmt(Append(rows, tick))
\* the filtered half of insertRawAndTickWithPrune
insertTickWithPrune(rows, tick) == pruneTicksStmt(Append(rows, tick))

\* the orders, newest first, in which "ORDER BY ts DESC" may return rows
RECURSIVE OrderedDesc(_)
OrderedDesc(S) ==
  IF S = {} THEN {<<>>}
  ELSE UNION {{<<r>> \o rest : rest \in OrderedDesc(S \ {r})} :
              r \in {x \in S : \A y \in S : x.ts >= y.ts}}

\* getRecentRawTicksStmt / getRecentTicksStmt: the possible results, each a
\* sequence of rows newest first.  Rows are tagged with their position so
\* that equal rows stay distinct.
Recent(rows, n) ==
  UNION {{[i \in 1..Len(o) |-> o[i].row] : o \in
            OrderedDesc({[pos |-> k, ts |-> rows[k].ts, row |-> rows[k]] : k \in K})} :
         K \in TopByTs(rows, n)}


\* ---------------------------------------------------------------- detector
USE_ADAPTIVE_THRESHOLDS == TRUE
MIN_ABS_PRICE_CHANGE == 30

EwmaState(pm, pv, vm, vv, lp, n) ==
  [priceMean |-> pm, priceVar |-> pv, volumeMean |-> vm, volumeVar |-> vv,
   lastPrice |-> lp, tickCount |-> n]

\* one step of the estimator on observation x (observation units) against
\* mean (two more digits) and variance:
\*   d = x - mean;  mean' = mean + ALPHA d;  var' = (1 - ALPHA)(var + ALPHA d^2)
EwmaMean(mean, x) == mean + (ALPHA_NUM * (x * 100 - mean)) \div ALPHA_DEN
EwmaVar(mean, var, x) ==
  LET d == (x * 100 - mean) \div 100
  IN  ((ALPHA_DEN - ALPHA_NUM) * (ALPHA_DEN * var + ALPHA_NUM * d * d))
        \div (ALPHA_DEN * ALPHA_DEN)

\* mutant: the count is not advanced
updateEwmaState_KeepsCount(state, tick) ==
  EwmaState(EwmaMean(state.priceMean, tick.yesPrice),
            EwmaVar(state.priceMean, state.priceVar, tick.yesPrice),
            EwmaMean(state.volumeMean, tick.deltaVolume),
            EwmaVar(state.volumeMean, state.volumeVar, tick.deltaVolume),
            tick.yesPrice,
            state.tickCount)

updateEwmaState(state, tick) ==
  EwmaState(EwmaMean(state.priceMean, tick.yesPrice),
            EwmaVar(state.priceMean, state.priceVar, tick.yesPrice),
            EwmaMean(state.volumeMean, tick.deltaVolume),
            EwmaVar(state.volumeMean, state.volumeVar, tick.deltaVolume),
            tick.yesPrice,
            state.tickCount + 1)

\* the loop of initializeEwmaFromTicks over sorted[i..], oldest first
RECURSIVE SeedLoop(_, _, _)
SeedLoop(acc, sorted, i) ==
  IF i > Len(sorted) THEN acc
  ELSE SeedLoop(
         [priceMean |-> EwmaMean(acc.priceMean, sorted[i].yesPrice),
          priceVar |-> EwmaVar(acc.priceMean, acc.priceVar, sorted[i].yesPrice),
          volumeMean |-> EwmaMean(acc.volumeMean, sorted[i].deltaVolume),
          volumeVar |-> EwmaVar(acc.volumeMean, acc.volumeVar, sorted[i].deltaVolume)],
         sorted, i + 1)

\* mutant: the history is processed as the store returns it, newest first
initializeEwmaFromTicks_NewestFirst(ticks) ==
  IF Len(ticks) = 0 THEN EwmaState(0, 0, 0, 0, 0, 0)
  ELSE LET sorted == ticks
           acc == SeedLoop([priceMean |-> sorted[1].yesPrice * 100, priceVar |-> 0,
                            volumeMean |-> sorted[1].deltaVolume * 100, volumeVar |-> 0],
                           sorted, 2)
       IN  EwmaState(acc.priceMean, acc.priceVar, acc.volumeMean, acc.volumeVar,
                     sorted[Len(sorted)].yesPrice, Len(sorted))

\* ticks: the history newest first, as the store returns it
initializeEwmaFromTicks(ticks) ==
  IF Len(ticks) = 0 THEN EwmaState(0, 0, 0, 0, 0, 0)
  ELSE LET sorted == [i \in 1..Len(ticks) |-> ticks[Len(ticks) + 1 - i]]
           acc == SeedLoop([priceMean |-> sorted[1].yesPrice * 100, priceVar |-> 0,
                            volumeMean |-> sorted[1].deltaVolume * 100, volumeVar |-> 0],
                           sorted, 2)
       IN  EwmaState(acc.priceMean, acc.priceVar, acc.volumeMean, acc.volumeVar,
                     sorted[Len(sorted)].yesPrice, Len(sorted))

\* Z-score in hundredths
computeEwmaZ(value, mean, variance, minStd) ==
  (value * 100 - mean) \div Max(Sqrt(variance), minStd)

\* mutant: the excess over the threshold is not floored at 0
calculateVolumeBoost_NoFloor(volumeZ) ==
  100 + ((volumeZ - VOLUME_BOOST_THRESHOLD) * VOLUME_BOOST_FACTOR) \div 100

\* boost in hundredths
calculateVolumeBoost(volumeZ) ==
  100 + (Max(0, volumeZ - VOLUME_BOOST_THRESHOLD) * VOLUME_BOOST_FACTOR) \div 100

\* mutant: the legacy minimum in every zone
getAdaptiveThreshold_Legacy(price) == MIN_ABS_PRICE_CHANGE

getAdaptiveThreshold(price) ==
  IF ~USE_ADAPTIVE_THRESHOLDS THEN MIN_ABS_PRICE_CHANGE
  ELSE IF price < 10 \/ price > 990 THEN DEEP_EXTREME_ZONE_MIN_CHANGE
  ELSE IF price < 30 \/ price > 970 THEN NEAR_EXTREME_ZONE_MIN_CHANGE
  ELSE MIDDLE_ZONE_MIN_CHANGE

\* the zero sentinel: the state of a market no tick was consumed for
NoEwma == EwmaState(0, 0, 0, 0, 0, 0)

\* the alert state of a market without a row in alerts
NoAlert == [lastAlertAt |-> 0, lastAlertHash |-> <<>>]

\* mutant: the cooldown check is missing
CooldownActive_Never(alertState, nowMs) == FALSE

\* "alertState.lastAlertAt && Date.now() - alertState.lastAlertAt < ALERT_COOLDOWN"
CooldownActive(alertState, nowMs) ==
  alertState.lastAlertAt # 0 /\ nowMs - alertState.lastAlertAt < ALERT_COOLDOWN

DuplicateAlert(alertState, alertHash, nowMs) ==
  /\ alertState.lastAlertHash = alertHash
  /\ alertState.lastAlertAt # 0
  /\ nowMs - alertState.lastAlertAt < DUPLICATE_ALERT_WINDOW

\* The synchronous part of evaluateStream, up to the call of the notifier:
\* the state it persists, the gate that stopped it ("notify" when it reaches
\* the notifier) and the detection it computed.  ewmaState is the loaded or
\* cold-started state, blocked the result of isStreamBlocked.
Evaluate(marketId, tick, ewmaState, blocked, alertState, nowMs) ==
  LET priceZ == computeEwmaZ(tick.yesPrice, ewmaState.priceMean,
                             ewmaState.priceVar, MIN_STD_PRICE)
      volumeZ == computeEwmaZ(tick.deltaVolume, ewmaState.volumeMean,
                              ewmaState.volumeVar, MIN_STD_VOLUME)
      adjustedScore == (Abs(priceZ) * calculateVolumeBoost(volumeZ)) \div 100
      hasValidLastPrice == ewmaState.lastPrice > 0
      priceChange == IF hasValidLastPrice THEN tick.yesPrice - ewmaState.lastPrice ELSE 0
      absPriceChange == Abs(priceChange)
      adaptiveThreshold == getAdaptiveThreshold(tick.yesPrice)
      alertHash == <<marketId, adjustedScore, absPriceChange>>
      gate ==
        IF ewmaState.tickCount < MIN_TICKS_FOR_DETECTION THEN "warmup"
        ELSE IF ~hasValidLastPrice THEN "no_last_price"
        ELSE IF absPriceChange < adaptiveThreshold THEN "price_change_too_small"
        ELSE IF adjustedScore < ADJUSTED_Z_THRESHOLD THEN "score_below_threshold"
        ELSE IF blocked THEN "blocklist"
        ELSE IF CooldownActive(alertState, nowMs) THEN "cooldown"
        ELSE IF DuplicateAlert(alertState, alertHash, nowMs) THEN "duplicate"
        ELSE "notify"
  IN  [ewma |-> updateEwmaState(ewmaState, tick),
       gate |-> gate,
       alertHash |-> alertHash,
       priceZ |-> priceZ, volumeZ |-> volumeZ, adjustedScore |-> adjustedScore,
       priceChange |-> priceChange, prevPrice |-> ewmaState.lastPrice,
       adaptiveThreshold |-> adaptiveThreshold]


\* ------------------------------------------------------------------- state
VARIABLES
  now,        \* Date.now(), in hours
  botConfigured, \* telegram.ts: bot and chatId are both set
  streams,    \* table streams: per market, the row or NoStream
  raw,        \* table ticks_raw: per market, its rows in rowid order
  ticks,      \* table ticks (filtered): per market, its rows in rowid order
  ewma,       \* table ewma_state: per market, the row or NoRow
  alerts,     \* table alerts: per market, the row or NoRow
  isPolling,  \* collector.ts: the non-reentrancy flag
  poll,       \* per caller of pollTicks: where its invocation stands
  task,       \* per caller and market: where collectTickForStream stands
  callSeq,    \* flips at every invocation of pollTicks
  obs,        \* per market: the observations that reached step 3 of collectTick
  warmAtStart,\* per market: the store held history for it when the run began
  sentAt,     \* per market: the times at which a notification was delivered
  failedAt,   \* per market: the times at which the notifier failed
  catalog,    \* the venue's topic list: its size and whether it reports a total
  walk,       \* listMarketsPaginated: the locals of the running generator
  emitted,    \* the descriptors the walk has yielded, as <<page, index>>
  okPages,    \* the pages whose request returned a list in this walk
  lookup,     \* listMarketsPaginated: the per-entry loop, its counters and caches
  sched,      \* index.ts: where run() stands, the wall clock, the timers that fired
  request     \* http client: where wrap stands, and the attempts made so far

vars == <<now, botConfigured, streams, raw, ticks, ewma, alerts, isPolling, poll,
          task, callSeq, obs, warmAtStart, sentAt, failedAt,
          catalog, walk, emitted, okPages, lookup, sched, request>>

walkVars == <<catalog, walk, emitted, okPages, lookup, request>>
collectorVars == <<now, botConfigured, streams, raw, ticks, ewma, alerts, isPolling,
                   poll, task, callSeq, obs, warmAtStart, sentAt, failedAt, request>>

storeVars == <<streams, raw, ticks, ewma, alerts>>

\* what an invocation of pollTicks leaves alone, and what the start of a walk
pollFrame == <<walkVars, now, botConfigured, storeVars, obs, warmAtStart, sentAt, failedAt>>
walkFrame == <<collectorVars, catalog>>

NoRow == [none |-> TRUE]
\* a row of streams: whether its title matches the alert blocklist, its
\* parentMarketId and its chainId (0 for a missing value)
NoStream == [tracked |-> FALSE, titleBlocked |-> FALSE, parentMarketId |-> 0, chainId |-> 0]
StreamOnChain(blocked, parent, chainId) ==
  [tracked |-> TRUE, titleBlocked |-> blocked, parentMarketId |-> parent, chainId |-> chainId]
StreamRecord(blocked, parent) == StreamOnChain(blocked, parent, 0)

NoTick == TickRecord(0, 0, 0, 0)
IdleTask == [pc |-> "none", price |-> 0, ts |-> 0, tick |-> NoTick,
             alertHash |-> <<>>, alertSent |-> FALSE, status |-> "none"]
IdlePoll == [pc |-> "idle", streams |-> <<>>, i |-> 0]

\* ---------------------------------------------------------- initial states
\* The database file outlives the process, so a run may begin on a store an
\* earlier run left.  A warm market is one that earlier runs collected
\* WarmTicks times from an empty store, each time at price 0.50 and volume
\* 3000: every such tick is accepted with deltaVolume 0.
WarmTick(j) == TickRecord(j - WarmTicks, 500, 3000, 0)

\* the estimator after n more of these ticks, halving n
RECURSIVE WarmRun(_, _)
WarmRun(state, n) ==
  IF n = 0 \/ state.tickCount < 0 THEN state  \* reading state keeps the evaluation shallow
  ELSE IF n = 1 THEN updateEwmaState(state, WarmTick(1))
  ELSE WarmRun(WarmRun(state, n \div 2), n - n \div 2)

WarmEwma(n) == WarmRun(initializeEwmaFromTicks(<<>>), n)

WarmRows(limit) ==
  [i \in 1..Min(limit, WarmTicks) |-> WarmTick(WarmTicks - Min(limit, WarmTicks) + i)]

\* tracked: the markets with a row in streams; warm: those with history
InitStore(tracked, warm) ==
  /\ streams = [m \in Markets |-> IF m \in tracked THEN StreamRecord(FALSE, 0) ELSE NoStream]
  /\ raw = [m \in Markets |-> IF m \in warm THEN WarmRows(RAW_TICKS_LIMIT) ELSE <<>>]
  /\ ticks = [m \in Markets |-> IF m \in warm THEN WarmRows(TICKS_LIMIT) ELSE <<>>]
  /\ ewma = [m \in Markets |-> IF m \in warm THEN WarmEwma(WarmTicks) ELSE NoRow]
  /\ alerts = [m \in Markets |-> NoRow]
  /\ warmAtStart = [m \in Markets |-> m \in warm]

\* A market that earlier runs collected ClusterTicks times at price 0.995 and
\* volume 3000: long enough for the estimator to have settled on the cluster.
ExtremeTick(j) == TickRecord(j - ClusterTicks, 995, 3000, 0)

\* the estimator after n more of these ticks, halving n
RECURSIVE ExtremeRun(_, _)
ExtremeRun(state, n) ==
  IF n = 0 \/ state.tickCount < 0 THEN state  \* reading state keeps the evaluation shallow
  ELSE IF n = 1 THEN updateEwmaState(state, ExtremeTick(1))
  ELSE ExtremeRun(ExtremeRun(state, n \div 2), n - n \div 2)

ExtremeEwma(n) == ExtremeRun(initializeEwmaFromTicks(<<>>), n)

ExtremeRows(limit) ==
  [i \in 1..Min(limit, ClusterTicks) |->
     ExtremeTick(ClusterTicks - Min(limit, ClusterTicks) + i)]

InitExtremeStore(tracked, warm) ==
  /\ streams = [m \in Markets |-> IF m \in tracked THEN StreamRecord(FALSE, 0) ELSE NoStream]
  /\ raw = [m \in Markets |-> IF m \in warm THEN ExtremeRows(RAW_TICKS_LIMIT) ELSE <<>>]
  /\ ticks = [m \in Markets |-> IF m \in warm THEN ExtremeRows(TICKS_LIMIT) ELSE <<>>]
  /\ ewma = [m \in Markets |-> IF m \in warm THEN ExtremeEwma(ClusterTicks) ELSE NoRow]
  /\ alerts = [m \in Markets |-> NoRow]
  /\ warmAtStart = [m \in Markets |-> m \in warm]

\* no request has been handed to the http client
IdleRequest == [pc |-> "idle", index |-> 0, attempts |-> <<>>, thrown |-> <<>>]

InitCollector ==
  /\ now = 1
  /\ isPolling = FALSE
  /\ poll = [p \in Pollers |-> IdlePoll]
  /\ task = [p \in Pollers |-> [m \in Markets |-> IdleTask]]
  /\ callSeq = [n |-> 0, outcome |-> "none"]
  /\ obs = [m \in Markets |-> <<>>]
  /\ sentAt = [m \in Markets |-> <<>>]
  /\ failedAt = [m \in Markets |-> <<>>]
  /\ request = IdleRequest

\* ---------------------------------------------------------------- pollTicks
RECURSIVE SumLen(_, _)
SumLen(f, S) ==
  IF S = {} THEN 0
  ELSE LET m == CHOOSE x \in S : TRUE IN Len(f[m]) + SumLen(f, S \ {m})

Collected == SumLen(obs, Markets)

\* getStreamsStmt: "ORDER BY updatedAt DESC"; the rows of one refresh share
\* updatedAt, so they come in any order
RECURSIVE Orders(_)
Orders(S) ==
  IF S = {} THEN {<<>>}
  ELSE UNION {{<<m>> \o rest : rest \in Orders(S \ {m})} : m \in S}

listStreams == Orders({m \in Markets : streams[m].tracked})

\* mutant: the slice is one market too long and overlaps the next batch
Batch_Overlapping(snapshot, i) ==
  {snapshot[k] : k \in i..Min(i + BATCH_SIZE, Len(snapshot))}

\* streams.slice(i, i + BATCH_SIZE), as the set of its markets (i from 1)
Batch(snapshot, i) ==
  {snapshot[k] : k \in i..Min(i + BATCH_SIZE - 1, Len(snapshot))}

\* batch.map((stream) => collectTickForStream(stream)): every task runs up to
\* its first await, the price request
StartBatch(p, snapshot, i) ==
  [m \in Markets |->
     IF m \in Batch(snapshot, i) THEN [IdleTask EXCEPT !.pc = "price"] ELSE IdleTask]

\* mutant: the flag is not consulted
AlreadyPolling_Ignored == FALSE

\* "if (isPolling)"
AlreadyPolling == isPolling

\* mutant: the finally block is missing
ClearFlag_Skipped == TRUE

\* "finally { isPolling = false; }": the flag pollTicks leaves on any exit
\* from its try block
ClearFlag == FALSE

\* pollTicks() is called by caller p; it runs up to its first await
StartPoll(p) ==
  /\ poll[p].pc = "idle"
  /\ Collected < MaxTicks
  /\ IF AlreadyPolling
     THEN /\ callSeq' = [n |-> 1 - callSeq.n, outcome |-> "skipped"]
          /\ UNCHANGED <<isPolling, poll, task>>
     ELSE \E snapshot \in listStreams :
            IF Len(snapshot) = 0
            THEN /\ callSeq' = [n |-> 1 - callSeq.n, outcome |-> "no_streams"]
                 /\ isPolling' = ClearFlag
                 /\ UNCHANGED <<poll, task>>
            ELSE /\ callSeq' = [n |-> 1 - callSeq.n, outcome |-> "started"]
                 /\ isPolling' = TRUE
                 /\ poll' = [poll EXCEPT ![p] = [pc |-> "running", streams |-> snapshot, i |-> 1]]
                 /\ task' = [task EXCEPT ![p] = StartBatch(p, snapshot, 1)]
  /\ UNCHANGED pollFrame

\* an invocation of pollTicks by a caller other than the scheduler
PollTicks(p) == StartPoll(p) /\ UNCHANGED sched

\* pollTicks() is called by caller p and storage.listStreams() throws: the
\* flag was set, the finally block runs and the invocation rejects
ListStreamsFails(p) ==
  /\ poll[p].pc = "idle"
  /\ Collected < MaxTicks
  /\ ~AlreadyPolling
  /\ callSeq' = [n |-> 1 - callSeq.n, outcome |-> "rejected"]
  /\ isPolling' = ClearFlag
  /\ UNCHANGED <<poll, task, sched>>
  /\ UNCHANGED pollFrame

\* mutant: a task that ended in error rejects Promise.all and the poll ends
BatchDone_StopsOnError(p) ==
  /\ poll[p].pc = "running"
  /\ \A m \in Batch(poll[p].streams, poll[p].i) : task[p][m].pc = "done"
  /\ IF /\ poll[p].i + BATCH_SIZE <= Len(poll[p].streams)
        /\ \A m \in Batch(poll[p].streams, poll[p].i) : task[p][m].status # "error"
     THEN /\ poll' = [poll EXCEPT ![p].i = @ + BATCH_SIZE]
          /\ task' = [task EXCEPT ![p] = StartBatch(p, poll[p].streams, poll[p].i + BATCH_SIZE)]
          /\ UNCHANGED isPolling
     ELSE /\ poll' = [poll EXCEPT ![p] = IdlePoll]
          /\ task' = [task EXCEPT ![p] = [m \in Markets |-> IdleTask]]
          /\ isPolling' = FALSE
  /\ UNCHANGED <<sched, walkVars, now, botConfigured, storeVars, callSeq, obs, warmAtStart, sentAt, failedAt>>

\* Promise.all of the current batch has resolved: the next batch starts, or
\* the poll ends and the finally block clears the flag
BatchDone(p) ==
  /\ poll[p].pc = "running"
  /\ \A m \in Batch(poll[p].streams, poll[p].i) : task[p][m].pc = "done"
  /\ IF poll[p].i + BATCH_SIZE <= Len(poll[p].streams)
     THEN /\ poll' = [poll EXCEPT ![p].i = @ + BATCH_SIZE]
          /\ task' = [task EXCEPT ![p] = StartBatch(p, poll[p].streams, poll[p].i + BATCH_SIZE)]
          /\ UNCHANGED isPolling
     ELSE /\ poll' = [poll EXCEPT ![p] = IdlePoll]
          /\ task' = [task EXCEPT ![p] = [m \in Markets |-> IdleTask]]
          /\ isPolling' = ClearFlag
  /\ UNCHANGED <<sched, walkVars, now, botConfigured, storeVars, callSeq, obs, warmAtStart, sentAt, failedAt>>


\* ----------------------------------------------------- collectTickForStream
Finish(p, m, status) ==
  [task EXCEPT ![p][m] = [IdleTask EXCEPT !.pc = "done", !.status = status]]

\* latestPricePublic settles: it throws (the task's catch reports an
\* error), yields no payload, or yields a price and a timestamp
PriceArrives(p, m, outcome, price, ts) ==
  /\ task[p][m].pc = "price"
  /\ task' = CASE outcome = "throw" -> Finish(p, m, "error")
               [] outcome = "null"  -> Finish(p, m, "skipped_no_payload")
               [] OTHER -> [task EXCEPT ![p][m].pc = "volume",
                                         ![p][m].price = price,
                                         ![p][m].ts = ts]
  /\ UNCHANGED <<sched, walkVars, now, botConfigured, storeVars, isPolling, poll, callSeq, obs,
                 warmAtStart, sentAt, failedAt>>

\* fetchPrivateMarketVolumeById settles with null
VolumeMissing(p, m) ==
  /\ task[p][m].pc = "volume"
  /\ task' = Finish(p, m, "skipped_no_payload")
  /\ UNCHANGED <<sched, walkVars, now, botConfigured, storeVars, isPolling, poll, callSeq, obs,
                 warmAtStart, sentAt, failedAt>>

\* mutant: the delta is taken against the last filtered tick
LastRawTick_Filtered(m) == Recent(ticks[m], 1)

\* storage.recentRawTicks(stream.marketId, 1): the possible results
LastRawTick(m) == Recent(raw[m], 1)

\* mutant: the delta is not clamped
DeltaVolume_NoClamp(rawDeltaVolume) == rawDeltaVolume

\* "Math.max(0, rawDeltaVolume)"
DeltaVolume(rawDeltaVolume) == Max(0, rawDeltaVolume)

\* mutant: the two thresholds are swapped
FilteredOut_Swapped(tick) ==
  tick.volume < MIN_DELTA_VOLUME /\ tick.deltaVolume < MIN_TOTAL_VOLUME

\* "effectiveVolume < MIN_TOTAL_VOLUME && deltaVolume < MIN_DELTA_VOLUME"
FilteredOut(tick) ==
  tick.volume < MIN_TOTAL_VOLUME /\ tick.deltaVolume < MIN_DELTA_VOLUME

isStreamBlocked(m) ==
  \/ streams[m].titleBlocked
  \/ /\ streams[m].parentMarketId # 0
     /\ streams[streams[m].parentMarketId].tracked
     /\ streams[streams[m].parentMarketId].titleBlocked

\* mutant: a filtered observation is dropped without a raw row
pushRawTick_Dropped(m, tick) == UNCHANGED <<raw, ticks>>

\* storage.pushRawTick(tick)
pushRawTick(m, tick) ==
  /\ \E r \in insertRawTickWithPrune(raw[m], tick) : raw' = [raw EXCEPT ![m] = r]
  /\ UNCHANGED ticks

\* storage.pushRawAndTick(tick): insertRawAndTickWithPrune, one transaction
pushRawAndTick(m, tick) ==
  /\ \E r \in insertRawTickWithPrune(raw[m], tick) : raw' = [raw EXCEPT ![m] = r]
  /\ \E r \in insertTickWithPrune(ticks[m], tick) : ticks' = [ticks EXCEPT ![m] = r]

\* mutant: the history is read once the tick has been stored (the filtered
\* table already ends with a row for this evaluation)
recentTicks_AfterStore(m, tick) ==
  UNION {Recent(r, TICKS_LIMIT) : r \in insertTickWithPrune(ticks[m], tick)}

\* "storage.recentTicks(stream.marketId)" of evaluateStream's cold start:
\* the possible results; the tick under evaluation is not stored yet
recentTicks(m, tick) == Recent(ticks[m], TICKS_LIMIT)

\* the tick that collectTickForStream builds from the price payload, the
\* volume and the last raw tick
CollectedTick(p, m, privateVolume, last) ==
  TickRecord(task[p][m].ts, task[p][m].price, privateVolume,
             DeltaVolume(IF Len(last) > 0 THEN privateVolume - last[1].volume ELSE 0))

\* fetchPrivateMarketVolumeById settles with a volume.  The task runs on
\* without suspension: it reads the last raw tick, derives the delta, and
\* either stores the tick as raw only or runs evaluateStream up to the call
\* of the notifier.
VolumeArrives(p, m, privateVolume) ==
  /\ task[p][m].pc = "volume"
  /\ \E last \in LastRawTick(m) :
     \E history \in recentTicks(m, CollectedTick(p, m, privateVolume, last)) :
       LET rawDeltaVolume == IF Len(last) > 0 THEN privateVolume - last[1].volume ELSE 0
           deltaVolume == DeltaVolume(rawDeltaVolume)
           tick == TickRecord(task[p][m].ts, task[p][m].price, privateVolume, deltaVolume)
           ewmaState == IF ewma[m] = NoRow THEN initializeEwmaFromTicks(history)
                                           ELSE ewma[m]
           alertState == IF alerts[m] = NoRow THEN NoAlert ELSE alerts[m]
           r == Evaluate(m, tick, ewmaState, isStreamBlocked(m), alertState, now)
           observed(gate) == [ts |-> tick.ts, yesPrice |-> tick.yesPrice,
                              volume |-> privateVolume, deltaVolume |-> deltaVolume,
                              warned |-> rawDeltaVolume < 0, gate |-> gate,
                              before |-> IF gate = "filters" THEN NoEwma ELSE ewmaState]
       IN  IF FilteredOut(tick)
           THEN /\ pushRawTick(m, tick)
                /\ task' = Finish(p, m, "skipped_filters")
                /\ obs' = [obs EXCEPT ![m] = Append(@, observed("filters"))]
                /\ UNCHANGED ewma
           ELSE /\ ewma' = [ewma EXCEPT ![m] = r.ewma]
                /\ task' = [task EXCEPT
                     ![p][m].pc = IF r.gate = "notify" THEN "notify" ELSE "store",
                     ![p][m].tick = tick,
                     ![p][m].alertHash = r.alertHash]
                /\ obs' = [obs EXCEPT ![m] = Append(@, observed(r.gate))]
                /\ UNCHANGED <<raw, ticks>>
  /\ UNCHANGED <<sched, walkVars, now, botConfigured, streams, alerts, isPolling, poll, callSeq,
                 warmAtStart, sentAt, failedAt>>

\* mutant: the failed attempt is recorded as an alert
OnNotifyError_Records(m, alertHash) ==
  [alerts EXCEPT ![m] = [lastAlertAt |-> now, lastAlertHash |-> alertHash]]

\* the catch branch of evaluateStream: the alerts table it leaves
OnNotifyError(m, alertHash) == alerts

\* mutant: the alert row is not written
updateAlert_Skipped(m, alertHash) == alerts

\* "storage.updateAlert({marketId, lastAlertAt: Date.now(), lastAlertHash})"
updateAlert(m, alertHash) ==
  [alerts EXCEPT ![m] = [lastAlertAt |-> now, lastAlertHash |-> alertHash]]

\* telegramNotifier.sendAlert settles.  Without a configured bot it returns
\* at once and nothing is delivered; with one it delivers the notification
\* or throws.
NotifyDone(p, m, delivered) ==
  /\ task[p][m].pc = "notify"
  /\ botConfigured \/ delivered
  /\ IF delivered
     THEN /\ alerts' = updateAlert(m, task[p][m].alertHash)
          /\ sentAt' = [sentAt EXCEPT ![m] = IF botConfigured THEN Append(@, now) ELSE @]
          /\ UNCHANGED failedAt
     ELSE /\ alerts' = OnNotifyError(m, task[p][m].alertHash)
          /\ failedAt' = [failedAt EXCEPT ![m] = Append(@, now)]
          /\ UNCHANGED sentAt
  /\ task' = [task EXCEPT ![p][m].pc = "store", ![p][m].alertSent = delivered]
  /\ UNCHANGED <<sched, walkVars, now, botConfigured, streams, raw, ticks, ewma, isPolling, poll,
                 callSeq, obs, warmAtStart>>

\* evaluateStream has returned: "storage.pushRawAndTick(tick)"
StoreTick(p, m) ==
  /\ task[p][m].pc = "store"
  /\ pushRawAndTick(m, task[p][m].tick)
  /\ task' = [task EXCEPT ![p][m] =
                [IdleTask EXCEPT !.pc = "done", !.status = "stored",
                                 !.alertSent = task[p][m].alertSent]]
  /\ UNCHANGED <<sched, walkVars, now, botConfigured, streams, ewma, alerts, isPolling, poll,
                 callSeq, obs, warmAtStart, sentAt, failedAt>>

\* A statement of the store throws before the task has written anything:
\* storage.recentRawTicks, storage.pushRawTick (its transaction rolls back)
\* or the detector's first read, getEwmaState.  The catch of
\* collectTickForStream returns {status: "error"}.
StoreReadFails(p, m) ==
  /\ task[p][m].pc = "volume"
  /\ task' = Finish(p, m, "error")
  /\ UNCHANGED <<sched, walkVars, now, botConfigured, storeVars, isPolling, poll, callSeq, obs,
                 warmAtStart, sentAt, failedAt>>

\* A statement of the store throws once the detector has written the
\* estimator: a later read of evaluateStream (lastAlert, getStreamById) or
\* storage.pushRawAndTick, whose transaction rolls back.  The same catch
\* returns {status: "error"}.
StoreWriteFails(p, m) ==
  /\ task[p][m].pc = "store"
  /\ task' = Finish(p, m, "error")
  /\ UNCHANGED <<sched, walkVars, now, botConfigured, storeVars, isPolling, poll, callSeq, obs,
                 warmAtStart, sentAt, failedAt>>

\* an hour passes
Tick ==
  /\ now < MaxTime
  /\ now' = now + 1
  /\ UNCHANGED <<sched, walkVars, botConfigured, storeVars, isPolling, poll, task, callSeq, obs,
                 warmAtStart, sentAt, failedAt>>

\* ----------------------------------------------- opinion.ts: raw entries
\* A RawMarket as the venue sends it, in a list, as a child, or as the payload
\* of the detail or the multi endpoint.  0 stands for an absent number, "" for
\* an absent statusEnum; hasChildList tells an absent childList from an empty
\* one; childMarkets and childList are one field; yesTokenId stands for
\* yesTokenId ?? yesPos.  Timestamps are numbers of the venue's clock.
RawMarket(topicId, marketId, chainId, statusEnum, resolvedAt, yesTokenId, childList) ==
  [topicId |-> topicId, marketId |-> marketId, chainId |-> chainId,
   statusEnum |-> statusEnum, status |-> 0, resolvedAt |-> resolvedAt, cutoffAt |-> 0,
   yesTokenId |-> yesTokenId, questionId |-> 0, parentMarketId |-> 0,
   hasChildList |-> childList # <<>>, childList |-> childList]

NoRaw == RawMarket(0, 0, 0, "", 0, 0, <<>>)

\* "T | null": the empty sequence is null
Null == <<>>
Some(x) == <<x>>

\* "nowMs": the server's clock when the walk began, and the number below
\* which asTimestampMs reads a timestamp as seconds
NowMs == 5000
MsFloor == 1000

NumTopics == 3
Topics == 1..NumTopics

isActivated(input, fallbackStatusEnum) ==
  LET statusEnum == IF input.statusEnum # "" THEN input.statusEnum ELSE fallbackStatusEnum
  IN  IF statusEnum # "" THEN statusEnum = "Activated" ELSE input.status = 2

\* 0 is null
asTimestampMs(value) ==
  IF value = 0 THEN 0 ELSE IF value < MsFloor THEN value * 1000 ELSE value

isActiveByTime(input, nowMs) ==
  LET resolvedAtMs == asTimestampMs(input.resolvedAt)
      cutoffAtMs == asTimestampMs(input.cutoffAt)
  IN  IF resolvedAtMs # 0 /\ resolvedAtMs > 0 /\ resolvedAtMs <= nowMs THEN FALSE
      ELSE IF cutoffAtMs # 0 /\ cutoffAtMs <= nowMs THEN FALSE
      ELSE TRUE

\* mutant: an input without a token is normalized whether it has children
\* or not
normalize_NoTokenCheck(input, parent, parentTopicId) ==
  LET marketIdValue == IF input.marketId # 0 THEN input.marketId ELSE input.topicId
      hasChildren == Len(input.childList) > 0
  IN  IF marketIdValue = 0 THEN Null
      ELSE Some([marketId |-> marketIdValue,
                 yesTokenId |-> IF input.yesTokenId # 0 THEN input.yesTokenId
                                ELSE 0 - marketIdValue,
                 parentMarketId |-> IF parent # 0 THEN parent ELSE input.parentMarketId,
                 topicId |-> IF input.questionId # 0 THEN input.questionId ELSE parentTopicId,
                 marketType |-> IF hasChildren THEN 1 ELSE 0,
                 chainId |-> input.chainId])

\* the descriptor, or null.  The placeholder "multi-parent-<marketId>" is the
\* negated marketId; topicId is the questionId, 0 for ""
normalize(input, parent, parentTopicId) ==
  LET marketIdValue == IF input.marketId # 0 THEN input.marketId ELSE input.topicId
      hasChildren == Len(input.childList) > 0
  IN  IF marketIdValue = 0 THEN Null
      ELSE IF input.yesTokenId = 0 /\ ~hasChildren THEN Null
      ELSE Some([marketId |-> marketIdValue,
                 yesTokenId |-> IF input.yesTokenId # 0 THEN input.yesTokenId
                                ELSE 0 - marketIdValue,
                 parentMarketId |-> IF parent # 0 THEN parent ELSE input.parentMarketId,
                 topicId |-> IF input.questionId # 0 THEN input.questionId ELSE parentTopicId,
                 marketType |-> IF hasChildren THEN 1 ELSE 0,
                 chainId |-> input.chainId])

\* what a request of the detail or the multi endpoint comes to: no request
\* was made ("none"), errno 10200 ("notfound"), another error ("error"), a
\* response without a payload ("empty"), or a payload
Outcome(kind, payload) == [kind |-> kind, payload |-> payload]
NoRequest == Outcome("none", NoRaw)

DETAIL_NOT_FOUND_STOP == 2
MULTI_NOT_FOUND_STOP == 2

\* mutant: the memo is never consulted
Cached_Never(cache, topicId) == FALSE

\* a cache maps a topicId to <<>> (no entry) or to <<v>>, v a payload or null
Cached(cache, topicId) == Len(cache[topicId]) > 0

\* mutant: the breaker never opens
NotFoundStop_Never(streak, stop) == FALSE

\* "detailNotFoundStreak >= config.publicTopicDetailNotFoundStop", and the
\* same of the multi endpoint
NotFoundStop(streak, stop) == streak >= stop

\* the locals of listMarketsPaginated that the per-entry loop reads and
\* writes, and where the loop stands: list is what is left to iterate with
\* the position next in it, rawMarket, childList, multiParent and market are
\* the locals of the current iteration, child the position in childList.
\* requests lists the requests made of the two endpoints, in order.
NoLookup ==
  [pc |-> "none", list |-> <<>>, next |-> 0,
   rawMarket |-> NoRaw, childList |-> <<>>, multiParent |-> Null, market |-> Null,
   child |-> 0,
   detailNotFoundStreak |-> 0, multiNotFoundStreak |-> 0,
   skipDetailRequests |-> FALSE, skipMultiRequests |-> FALSE,
   detailCache |-> [t \in Topics |-> <<>>], multiCache |-> [t \in Topics |-> <<>>],
   requests |-> <<>>]

DetailRequested(lk, topicId) == ~Cached(lk.detailCache, topicId) /\ ~lk.skipDetailRequests
MultiRequested(lk, topicId) == ~Cached(lk.multiCache, topicId) /\ ~lk.skipMultiRequests

\* the streak after a request: a payload resets it, a response without a
\* payload leaves it, errno 10200 adds one, another error resets it
StreakAfter(streak, kind) ==
  CASE kind = "payload" -> 0
    [] kind = "empty" -> streak
    [] kind = "notfound" -> streak + 1
    [] OTHER -> 0

fetchTopicDetail(lk, topicId, outcome) ==
  IF Cached(lk.detailCache, topicId)
  THEN [lookup |-> lk, detail |-> lk.detailCache[topicId][1]]
  ELSE IF lk.skipDetailRequests THEN [lookup |-> lk, detail |-> Null]
  ELSE LET detail == IF outcome.kind = "payload" THEN Some(outcome.payload) ELSE Null
           streak == StreakAfter(lk.detailNotFoundStreak, outcome.kind)
       IN  [lookup |->
              [lk EXCEPT !.detailNotFoundStreak = streak,
                         !.skipDetailRequests =
                            @ \/ (outcome.kind = "notfound"
                                  /\ NotFoundStop(streak, DETAIL_NOT_FOUND_STOP)),
                         !.detailCache[topicId] = <<detail>>,
                         !.requests = Append(@, [endpoint |-> "detail", topicId |-> topicId,
                                                 kind |-> outcome.kind])],
            detail |-> detail]

fetchMultiTopic(lk, topicId, outcome) ==
  IF Cached(lk.multiCache, topicId)
  THEN [lookup |-> lk, detail |-> lk.multiCache[topicId][1]]
  ELSE IF lk.skipMultiRequests THEN [lookup |-> lk, detail |-> Null]
  ELSE LET detail == IF outcome.kind = "payload" THEN Some(outcome.payload) ELSE Null
           streak == StreakAfter(lk.multiNotFoundStreak, outcome.kind)
       IN  [lookup |->
              [lk EXCEPT !.multiNotFoundStreak = streak,
                         !.skipMultiRequests =
                            @ \/ (outcome.kind = "notfound"
                                  /\ NotFoundStop(streak, MULTI_NOT_FOUND_STOP)),
                         !.multiCache[topicId] = <<detail>>,
                         !.requests = Append(@, [endpoint |-> "multi", topicId |-> topicId,
                                                 kind |-> outcome.kind])],
            detail |-> detail]

\* "const initial = passesActivation ? normalize(...) : null"
InitialOf(rawMarket, parent, parentTopicId) ==
  IF isActivated(rawMarket, "") \/ Len(rawMarket.childList) > 0
  THEN normalize(rawMarket, parent, parentTopicId)
  ELSE Null

\* enrichIfNeeded makes a request of the detail endpoint
EnrichRequests(lk, rawMarket, parent, parentTopicId) ==
  /\ InitialOf(rawMarket, parent, parentTopicId) = Null
  /\ rawMarket.topicId # 0
  /\ DetailRequested(lk, rawMarket.topicId)

\* source is the input normalize was given
enrichIfNeeded(lk, rawMarket, parent, parentTopicId, outcome) ==
  LET initial == InitialOf(rawMarket, parent, parentTopicId)
  IN  IF initial # Null \/ rawMarket.topicId = 0
      THEN [lookup |-> lk, market |-> initial, source |-> rawMarket]
      ELSE LET r == fetchTopicDetail(lk, rawMarket.topicId, outcome)
           IN  [lookup |-> r.lookup,
                market |-> IF r.detail = Null THEN Null
                           ELSE IF isActivated(r.detail[1], rawMarket.statusEnum)
                                THEN normalize(r.detail[1], parent, parentTopicId)
                                ELSE Null,
                source |-> IF r.detail = Null THEN NoRaw ELSE r.detail[1]]

\* --------------------------------------------------- listMarketsPaginated
\* The venue lists catalog.size entries, PAGE_SIZE to a page, and reports
\* their number as `total` when catalog.reportsTotal.  Every entry is an
\* active single market: its lookups catch their own errors and find no
\* children, and the walk yields it as one descriptor.  Page numbers above MaxPage stand for one another: such
\* a page is empty, and the walk compares page numbers with totalPages only,
\* which is at most MaxPage.
PageLen(k) ==
  IF k > MaxPage THEN 0
  ELSE Min(PAGE_SIZE, Max(0, catalog.size - (k - 1) * PAGE_SIZE))

NextPage(k) == Min(k + 1, MaxPage + 1)

IdleWalk == [pc |-> "idle", page |-> 1, totalPages |-> 0, done |-> FALSE,
             pages |-> <<>>, results |-> <<>>, next |-> 0]

\* "for (let i = 0; i < workers; i += 1)": the pages of the next batch, from
\* page on (totalPages = 0 stands for null)
RECURSIVE BatchPages(_, _, _)
BatchPages(page, totalPages, i) ==
  IF i >= PAGE_WORKERS \/ (totalPages # 0 /\ page > totalPages) THEN <<>>
  ELSE <<page>> \o BatchPages(NextPage(page), totalPages, i + 1)

RECURSIVE PageAfter(_, _)
PageAfter(page, n) == IF n = 0 THEN page ELSE PageAfter(NextPage(page), n - 1)

\* "while (!done)": the head of the loop, up to Promise.all
LoopHead(w) ==
  IF w.done THEN [w EXCEPT !.pc = "done", !.pages = <<>>, !.results = <<>>, !.next = 0]
  ELSE LET pages == BatchPages(w.page, w.totalPages, 0)
       IN  IF Len(pages) = 0
           THEN [w EXCEPT !.pc = "done", !.pages = <<>>, !.results = <<>>, !.next = 0]
           ELSE [w EXCEPT !.pc = "fetching",
                          !.page = PageAfter(w.page, Len(pages)),
                          !.pages = pages,
                          !.results = [i \in 1..Len(pages) |-> [state |-> "pending", len |-> 0, total |-> 0]],
                          !.next = 0]

\* listMarketsPaginated() is called and runs to its first Promise.all
StartWalk ==
  /\ walk.pc \in {"idle", "done", "aborted"}
  /\ walk' = LoopHead(IdleWalk)
  /\ emitted' = <<>>
  /\ okPages' = {}
  /\ lookup' = NoLookup
  /\ UNCHANGED walkFrame

\* a walk started by a caller other than the scheduler
WalkStart == walk.pc = "idle" /\ StartWalk /\ UNCHANGED sched

\* fetchPage of the i-th page of the batch settles: http.get throws, which
\* rejects Promise.all and ends the generator with that error; or the
\* response has a non-zero code or no list (fetchPage returns null); or it
\* carries the page's list
PageArrives(i, outcome) ==
  /\ walk.pc = "fetching"
  /\ i \in 1..Len(walk.results)
  /\ walk.results[i].state = "pending"
  /\ LET settled ==
           IF outcome = "null" THEN [state |-> "null", len |-> 0, total |-> 0]
           ELSE [state |-> "list", len |-> PageLen(walk.pages[i]),
                 total |-> IF catalog.reportsTotal THEN catalog.size ELSE 0]
         results == [walk.results EXCEPT ![i] = settled]
     IN  IF outcome = "throw"
         THEN /\ walk' = [walk EXCEPT !.pc = "aborted"]
              /\ UNCHANGED okPages
         ELSE /\ walk' = [walk EXCEPT
                   !.results = results,
                   !.pc = IF \A j \in 1..Len(results) : results[j].state # "pending"
                          THEN "processing" ELSE "fetching",
                   !.next = 1]
              /\ okPages' = IF outcome = "list" THEN okPages \cup {walk.pages[i]} ELSE okPages
  /\ UNCHANGED <<sched, collectorVars, catalog, emitted, lookup>>

\* "Math.max(1, Math.ceil(result.total / limit))"
TotalPages(total) == Max(1, (total + PAGE_SIZE - 1) \div PAGE_SIZE)

\* the body of "for (const result of results)" for the next result, and the
\* head of the loop after the last one
ProcessPage ==
  /\ walk.pc = "processing"
  /\ LET result == walk.results[walk.next]
         k == walk.pages[walk.next]
         w1 == IF result.state = "null" THEN walk
               ELSE IF result.len = 0 THEN [walk EXCEPT !.done = TRUE]
               ELSE LET totalPages == IF walk.totalPages = 0 /\ result.total # 0
                                      THEN TotalPages(result.total) ELSE walk.totalPages
                    IN  [walk EXCEPT !.totalPages = totalPages,
                                     !.done = @ \/ (totalPages = 0 /\ result.len < PAGE_SIZE)]
         w2 == [w1 EXCEPT !.next = @ + 1]
     IN  /\ emitted' = IF result.state = "list"
                       THEN emitted \o [i \in 1..result.len |-> <<k, i>>]
                       ELSE emitted
         /\ walk' = IF w2.next > Len(w2.results) THEN LoopHead(w2) ELSE w2
  /\ UNCHANGED <<sched, collectorVars, catalog, okPages, lookup>>

InitWalk ==
  /\ catalog \in [size : 0..(MaxPage * PAGE_SIZE), reportsTotal : BOOLEAN]
  /\ walk = IdleWalk
  /\ emitted = <<>>
  /\ okPages = {}
  /\ lookup = NoLookup

NoSched == sched = [pc |-> "none", variant |-> 1, minute |-> 0, fired |-> {}, overlap |-> 0]

NoWalk ==
  /\ catalog = [size |-> 0, reportsTotal |-> FALSE]
  /\ walk = IdleWalk
  /\ emitted = <<>>
  /\ okPages = {}
  /\ lookup = NoLookup

\* ------------------------------------ listMarketsPaginated: the entry loop
\* The body of "for (const raw of result.list)", one action for each of its
\* stretches that awaits a lookup.  lookup.list holds the entries of the
\* pages the walk has loaded, in the order the generator iterates them.  An
\* action takes the outcome of the request its lookup makes, and NoRequest
\* when the lookup makes none.  The walk yields its descriptors to emitted
\* with the entry, the role and the child they were yielded for and the
\* input they were normalized from.
NextEntry(lk) ==
  [lk EXCEPT !.pc = IF lk.next + 1 > Len(lk.list) THEN "done" ELSE "entry",
             !.next = @ + 1, !.rawMarket = NoRaw, !.childList = <<>>,
             !.multiParent = Null, !.market = Null, !.child = 0]

Yielded(role, lk, r) ==
  [entry |-> lk.next, role |-> role, child |-> lk.child, market |-> r.market[1],
   source |-> r.source]

\* "let childList = rawMarket.childMarkets ?? rawMarket.childList" up to the
\* end of "if ((!childList || childList.length === 0) && rawMarket.topicId)"
FetchChildList(outcome) ==
  /\ lookup.pc = "entry"
  /\ LET rawMarket == lookup.list[lookup.next]
         asks == Len(rawMarket.childList) = 0 /\ rawMarket.topicId # 0
         r == IF asks THEN fetchMultiTopic(lookup, rawMarket.topicId, outcome)
              ELSE [lookup |-> lookup, detail |-> Null]
         attaches == r.detail # Null /\ r.detail[1].hasChildList
     IN  /\ (outcome.kind # "none") <=> (asks /\ MultiRequested(lookup, rawMarket.topicId))
         /\ lookup' = [r.lookup EXCEPT
               !.pc = "parent",
               !.childList = IF attaches THEN r.detail[1].childList ELSE rawMarket.childList,
               !.multiParent = IF attaches THEN r.detail ELSE Null,
               !.rawMarket = IF attaches
                             THEN [rawMarket EXCEPT !.childList = r.detail[1].childList,
                                                    !.hasChildList = TRUE]
                             ELSE rawMarket]
  /\ UNCHANGED <<sched, collectorVars, catalog, walk, emitted, okPages>>

\* "const market = isActiveByTime(rawMarket, nowMs) ? await
\* enrichIfNeeded(rawMarket) : null; if (market) yield market"
EmitParent(outcome) ==
  /\ lookup.pc = "parent"
  /\ LET active == isActiveByTime(lookup.rawMarket, NowMs)
         r == IF active THEN enrichIfNeeded(lookup, lookup.rawMarket, 0, 0, outcome)
              ELSE [lookup |-> lookup, market |-> Null, source |-> NoRaw]
     IN  /\ (outcome.kind # "none")
              <=> (active /\ EnrichRequests(lookup, lookup.rawMarket, 0, 0))
         /\ lookup' = [r.lookup EXCEPT !.pc = "multiParent", !.market = r.market]
         /\ emitted' = IF r.market # Null
                       THEN Append(emitted, Yielded("entry", lookup, r))
                       ELSE emitted
  /\ UNCHANGED <<sched, collectorVars, catalog, walk, okPages>>

\* "if (multiParent && multiParentChain !== rawMarketChain)", and the head of
\* the loop over the children
EmitMultiParent(outcome) ==
  /\ lookup.pc = "multiParent"
  /\ LET differs == /\ lookup.multiParent # Null
                    /\ lookup.multiParent[1].chainId # lookup.rawMarket.chainId
         r == IF differs THEN enrichIfNeeded(lookup, lookup.multiParent[1], 0, 0, outcome)
              ELSE [lookup |-> lookup, market |-> Null, source |-> NoRaw]
         lk == [r.lookup EXCEPT !.pc = "children", !.child = 1]
     IN  /\ (outcome.kind # "none")
              <=> (differs /\ EnrichRequests(lookup, lookup.multiParent[1], 0, 0))
         /\ lookup' = IF Len(lookup.childList) = 0 THEN NextEntry(lk) ELSE lk
         /\ emitted' = IF r.market # Null
                       THEN Append(emitted, Yielded("multiParent", lookup, r))
                       ELSE emitted
  /\ UNCHANGED <<sched, collectorVars, catalog, walk, okPages>>

\* "const parentMarketId = multiParent?.topicId ? ... : (market?.marketId ??
\* (rawMarket.topicId ? ... : undefined))"
ParentMarketId(lk) ==
  IF lk.multiParent # Null /\ lk.multiParent[1].topicId # 0 THEN lk.multiParent[1].topicId
  ELSE IF lk.market # Null THEN lk.market[1].marketId
  ELSE lk.rawMarket.topicId

ParentTopicId(lk) ==
  IF lk.multiParent # Null /\ lk.multiParent[1].questionId # 0
  THEN lk.multiParent[1].questionId
  ELSE IF lk.market # Null THEN lk.market[1].topicId
  ELSE 0

\* one iteration of "for (const child of childList)"
EmitChild(outcome) ==
  /\ lookup.pc = "children"
  /\ LET childMarket == lookup.childList[lookup.child]
         passes == /\ isActivated(childMarket, lookup.rawMarket.statusEnum)
                   /\ isActiveByTime(childMarket, NowMs)
         r == IF passes
              THEN enrichIfNeeded(lookup, childMarket, ParentMarketId(lookup),
                                  ParentTopicId(lookup), outcome)
              ELSE [lookup |-> lookup, market |-> Null, source |-> NoRaw]
         lk == [r.lookup EXCEPT !.child = @ + 1]
     IN  /\ (outcome.kind # "none")
              <=> (passes /\ EnrichRequests(lookup, childMarket, ParentMarketId(lookup),
                                            ParentTopicId(lookup)))
         /\ lookup' = IF lk.child > Len(lk.childList) THEN NextEntry(lk) ELSE lk
         /\ emitted' = IF r.market # Null
                       THEN Append(emitted, Yielded("child", lookup, r))
                       ELSE emitted
  /\ UNCHANGED <<sched, collectorVars, catalog, walk, okPages>>

\* the generator has loaded list and stands at its first entry
InitEntries(list) ==
  /\ catalog = [size |-> 0, reportsTotal |-> FALSE]
  /\ walk = [IdleWalk EXCEPT !.pc = "entries"]
  /\ emitted = <<>>
  /\ okPages = {}
  /\ lookup = [NoLookup EXCEPT !.pc = IF Len(list) = 0 THEN "done" ELSE "entry",
                               !.list = list, !.next = 1]

\* ---------------------------------------------------------------- index.ts
\* run() awaits refreshStreams, awaits pollTicks and calls schedule(), which
\* installs the three timers.  sched.variant tells the two versions of
\* isBlackoutWindow apart, sched.minute is the minute of the hour, and
\* sched.fired the timers whose callback has run.
BootSched(variant, minute) ==
  [pc |-> "boot", variant |-> variant, minute |-> minute, fired |-> {}, overlap |-> 0]

\* "new Date().getMinutes()" against the windows of the variant
isBlackoutWindow ==
  LET m == sched.minute
  IN  IF sched.variant = 1
      THEN (m >= 56) \/ (m >= 26 /\ m <= 30)
      ELSE (m >= 56 \/ m <= 2) \/ (m >= 26 /\ m <= 32)

\* "await refreshStreams()" of run
RunStart ==
  /\ sched.pc = "boot"
  /\ StartWalk
  /\ sched' = [sched EXCEPT !.pc = "refreshing"]

\* the startup refresh rejected: "process.exit(1)"
RunFails ==
  /\ sched.pc = "refreshing"
  /\ walk.pc = "aborted"
  /\ sched' = [sched EXCEPT !.pc = "exited"]
  /\ UNCHANGED <<collectorVars, walkVars>>

\* mutant: the poll starts without waiting for the refresh
StartupRefreshDone_NoWait == TRUE

\* refreshStreams has resolved
StartupRefreshDone == walk.pc = "done"

\* "await pollTicks()" of run, once refreshStreams has resolved
StartupPoll ==
  /\ sched.pc = "refreshing"
  /\ StartupRefreshDone
  /\ StartPoll(1)
  /\ sched' = [sched EXCEPT !.pc = "polling"]

\* pollTicks has resolved
StartupPollDone == poll[1].pc = "idle"

\* "schedule()" of run, once pollTicks has resolved: the timers exist
Schedule ==
  /\ sched.pc = "polling"
  /\ StartupPollDone
  /\ sched' = [sched EXCEPT !.pc = "scheduled"]
  /\ UNCHANGED <<collectorVars, walkVars>>

\* a call of refreshStreams has not settled: its generator is in a round
WalkRunning == walk.pc \in {"fetching", "processing"}

\* the hourly timer: "refreshStreams().catch(...)".  The callback tests
\* nothing: when the walk of an earlier call is still running it starts
\* another one beside it.  walk follows the earlier call; sched.overlap
\* counts the calls running beside it.
TimerRefresh ==
  /\ sched.pc = "scheduled"
  /\ \/ /\ StartWalk
        /\ sched' = [sched EXCEPT !.fired = @ \cup {"refresh"}]
     \/ /\ WalkRunning
        /\ sched.overlap < MaxOverlap
        /\ sched' = [sched EXCEPT !.fired = @ \cup {"refresh"}, !.overlap = @ + 1]
        /\ UNCHANGED <<collectorVars, walkVars>>

\* a call of refreshStreams that ran beside another one settles: it resolves
\* or its rejection is logged by the timer's catch
RefreshSettles ==
  /\ sched.overlap > 0
  /\ sched' = [sched EXCEPT !.overlap = @ - 1]
  /\ UNCHANGED <<collectorVars, walkVars>>

\* the minute timer outside the blackout window: "pollTicks().catch(...)"
TimerPoll ==
  /\ sched.pc = "scheduled"
  /\ ~isBlackoutWindow
  /\ StartPoll(2)
  /\ sched' = [sched EXCEPT !.fired = @ \cup {"poll"}]

\* the minute timer inside the blackout window: it logs and returns
TimerPollSkipped ==
  /\ sched.pc = "scheduled"
  /\ isBlackoutWindow
  /\ sched' = [sched EXCEPT !.fired = @ \cup {"skip"}]
  /\ UNCHANGED <<collectorVars, walkVars>>

\* the heartbeat timer
Heartbeat ==
  /\ sched.pc = "scheduled"
  /\ sched' = [sched EXCEPT !.fired = @ \cup {"heartbeat"}]
  /\ UNCHANGED <<collectorVars, walkVars>>

\* a minute of wall-clock time passes
MinutePasses ==
  /\ sched.pc \in {"boot", "refreshing", "polling", "scheduled"}
  /\ sched' = [sched EXCEPT !.minute = (@ + 1) % 60]
  /\ UNCHANGED <<collectorVars, walkVars>>

\* ------------------------------------------------------- specifications
\* The store and the collector of one market, cold or warm at the start,
\* under every sequence of upstream prices, volumes and timestamps.
StoreVolumes == {900, 1000, 1200, 3000, 3200}
StorePrices == {500}
Timestamps == {1, 2, 3}

Init ==
  /\ InitCollector
  /\ NoWalk
  /\ NoSched
  /\ botConfigured = TRUE
  /\ \E warm \in SUBSET {1} : InitStore({1}, warm)

Next ==
  \/ PollTicks(1)
  \/ BatchDone(1)
  \/ \E outcome \in {"throw", "null", "payload"}, price \in StorePrices, ts \in Timestamps :
       PriceArrives(1, 1, outcome, price, ts)
  \/ VolumeMissing(1, 1)
  \/ \E v \in StoreVolumes : VolumeArrives(1, 1, v)
  \/ StoreTick(1, 1)

Spec == Init /\ [][Next]_vars

\* The detector and the notifier on a warm market, with timestamps that grow
\* from one observation to the next, while the clock runs.
AlertVolumes == {3000, 3200}
AlertPrices == {500, 700, 900}

AlertInit ==
  /\ InitCollector
  /\ NoWalk
  /\ NoSched
  /\ botConfigured \in BOOLEAN
  /\ InitStore({1}, {1})

AlertNext ==
  \/ PollTicks(1)
  \/ BatchDone(1)
  \/ \E price \in AlertPrices : PriceArrives(1, 1, "payload", price, Len(obs[1]) + 1)
  \/ \E v \in AlertVolumes : VolumeArrives(1, 1, v)
  \/ \E d \in BOOLEAN : NotifyDone(1, 1, d)
  \/ StoreTick(1, 1)
  \/ Tick

AlertSpec == AlertInit /\ [][AlertNext]_vars



\* The detector on a market that is new or whose history is clustered at
\* 0.995, under prices of every zone.
ZoneVolumes == {3000, 3400}
ZonePrices == {5, 20, 920, 980, 995}

ZoneInit ==
  /\ InitCollector
  /\ NoWalk
  /\ NoSched
  /\ botConfigured = TRUE
  /\ \E warm \in SUBSET {1} : InitExtremeStore({1}, warm)

ZoneNext ==
  \/ PollTicks(1)
  \/ BatchDone(1)
  \/ \E price \in ZonePrices : PriceArrives(1, 1, "payload", price, Len(obs[1]) + 1)
  \/ \E v \in ZoneVolumes : VolumeArrives(1, 1, v)
  \/ \E d \in BOOLEAN : NotifyDone(1, 1, d)
  \/ StoreTick(1, 1)

ZoneSpec == ZoneInit /\ [][ZoneNext]_vars

\* The blocklist gate: market 1 is a parent, market 2 its child with a warm
\* history; either title may match the blocklist, and the two rows may or
\* may not be of the same chain.
ChainIds == {1, 2}

BlockInit ==
  /\ InitCollector
  /\ NoWalk
  /\ NoSched
  /\ botConfigured = TRUE
  /\ \E parentBlocked \in BOOLEAN, childBlocked \in BOOLEAN, parentChain \in ChainIds :
       streams = [m \in Markets |->
                    IF m = 1 THEN StreamOnChain(parentBlocked, 0, parentChain)
                    ELSE IF m = 2 THEN StreamOnChain(childBlocked, 1, 1)
                    ELSE NoStream]
  /\ raw = [m \in Markets |-> IF m = 2 THEN WarmRows(RAW_TICKS_LIMIT) ELSE <<>>]
  /\ ticks = [m \in Markets |-> IF m = 2 THEN WarmRows(TICKS_LIMIT) ELSE <<>>]
  /\ ewma = [m \in Markets |-> IF m = 2 THEN WarmEwma(WarmTicks) ELSE NoRow]
  /\ alerts = [m \in Markets |-> NoRow]
  /\ warmAtStart = [m \in Markets |-> m = 2]

BlockNext ==
  \/ PollTicks(1)
  \/ BatchDone(1)
  \/ PriceArrives(1, 1, "null", 0, 0)
  \/ \E price \in {500, 900} : PriceArrives(1, 2, "payload", price, Len(obs[2]) + 1)
  \/ VolumeArrives(1, 2, 3200)
  \/ \E d \in BOOLEAN : NotifyDone(1, 2, d)
  \/ StoreTick(1, 2)

BlockSpec == BlockInit /\ [][BlockNext]_vars

\* The process from its start: both versions of the scheduler, started at
\* any minute of the hour, on a store that tracks one market, against a
\* venue whose catalog is empty.
SchedInit ==
  /\ InitCollector
  /\ NoWalk
  /\ botConfigured = TRUE
  /\ InitStore({1}, {})
  /\ \E variant \in {1, 2}, minute \in 0..59 : sched = BootSched(variant, minute)

SchedNext ==
  \/ RunStart
  \/ RunFails
  \/ StartupPoll
  \/ Schedule
  \/ TimerRefresh
  \/ RefreshSettles
  \/ TimerPoll
  \/ TimerPollSkipped
  \/ Heartbeat
  \/ MinutePasses
  \/ \E i \in 1..PAGE_WORKERS, outcome \in {"throw", "list"} : PageArrives(i, outcome)
  \/ ProcessPage
  \/ \E p \in Pollers : BatchDone(p)
  \/ \E p \in Pollers : PriceArrives(p, 1, "payload", 500, Len(obs[1]) + 1)
  \/ \E p \in Pollers : VolumeArrives(p, 1, 3000)
  \/ \E p \in Pollers : StoreTick(p, 1)

SchedSpec == SchedInit /\ [][SchedNext]_vars

\* Several callers of pollTicks over every tracked market, in batches; a
\* price request fails or answers, a volume request answers.
PollInit ==
  /\ InitCollector
  /\ NoWalk
  /\ NoSched
  /\ botConfigured = TRUE
  /\ InitStore(Markets, {})

PollNext ==
  \/ \E p \in Pollers : PollTicks(p)
  \/ \E p \in Pollers : BatchDone(p)
  \/ \E p \in Pollers, m \in Markets, outcome \in {"throw", "payload"} :
       PriceArrives(p, m, outcome, 500, 1)
  \/ \E p \in Pollers, m \in Markets : VolumeArrives(p, m, 3000)
  \/ \E p \in Pollers, m \in Markets : StoreTick(p, m)

PollSpec == PollInit /\ [][PollNext]_vars

\* One caller of pollTicks over every tracked market while the collect of
\* market 1 fails at will: its price request throws or answers, a statement
\* of the store on its rows throws or succeeds.  The other markets answer,
\* and every answered observation passes the volume filters.
FaultInit ==
  /\ InitCollector
  /\ NoWalk
  /\ NoSched
  /\ botConfigured = TRUE
  /\ InitStore(Markets, {})

FaultNext ==
  \/ PollTicks(1)
  \/ BatchDone(1)
  \/ \E m \in Markets : PriceArrives(1, m, "payload", 500, 1)
  \/ PriceArrives(1, 1, "throw", 500, 1)
  \/ \E m \in Markets : VolumeArrives(1, m, 3000)
  \/ StoreReadFails(1, 1)
  \/ StoreWriteFails(1, 1)
  \/ \E m \in Markets : StoreTick(1, m)

FaultSpec == FaultInit /\ [][FaultNext]_vars

\* The invocations of pollTicks by one caller, one after another, over
\* markets 1 and 2, either tracked or not, market 1 warm when it is tracked.  The read of the streams may throw, the
\* price request of market 1 throws or answers, the notifier delivers or
\* throws, and a statement of the store on the rows of market 1 may throw.
FlagCallers == {1}
FlagMarkets == {1, 2}

FlagInit ==
  /\ InitCollector
  /\ NoWalk
  /\ NoSched
  /\ botConfigured = TRUE
  /\ \E tracked \in SUBSET FlagMarkets : InitStore(tracked, tracked \cap {1})

\* the steps by which a running poll goes on: a request settles, the store
\* is written, Promise.all resolves
FlagProgress ==
  \/ \E p \in FlagCallers : BatchDone(p)
  \/ \E p \in FlagCallers, m \in FlagMarkets : PriceArrives(p, m, "payload", 900, 1)
  \/ \E p \in FlagCallers : PriceArrives(p, 1, "throw", 900, 1)
  \/ \E p \in FlagCallers, m \in FlagMarkets : VolumeArrives(p, m, 3000)
  \/ \E p \in FlagCallers, d \in BOOLEAN : NotifyDone(p, 1, d)
  \/ \E p \in FlagCallers, m \in FlagMarkets : StoreTick(p, m)

FlagNext ==
  \/ \E p \in FlagCallers : PollTicks(p)
  \/ \E p \in FlagCallers : ListStreamsFails(p)
  \/ FlagProgress
  \/ \E p \in FlagCallers : StoreReadFails(p, 1)
  \/ \E p \in FlagCallers : StoreWriteFails(p, 1)

FlagSpec == FlagInit /\ [][FlagNext]_vars

\* Every request a collect awaits settles (the price, the volume, the
\* notifier), and code that can run on does.
FlagFairSpec == FlagSpec /\ WF_vars(FlagProgress)

\* The collector of one market, cold or warm at the start, under volumes on
\* both sides of the filters, a price that stays and a price that jumps, any
\* timestamps, and a notifier that delivers or throws.
GatePrices == {500, 900}
GateVolumes == {900, 3000}
GateTimestamps == {1, 2}

GateInit ==
  /\ InitCollector
  /\ NoWalk
  /\ NoSched
  /\ botConfigured = TRUE
  /\ \E warm \in SUBSET {1} : InitStore({1}, warm)

GateNext ==
  \/ PollTicks(1)
  \/ BatchDone(1)
  \/ \E outcome \in {"throw", "null", "payload"}, price \in GatePrices, ts \in GateTimestamps :
       PriceArrives(1, 1, outcome, price, ts)
  \/ VolumeMissing(1, 1)
  \/ \E v \in GateVolumes : VolumeArrives(1, 1, v)
  \/ \E d \in BOOLEAN : NotifyDone(1, 1, d)
  \/ StoreTick(1, 1)

GateSpec == GateInit /\ [][GateNext]_vars

\* The collector of one market whose store is empty or comes from a version
\* that kept no estimator: WarmTicks accepted ticks are stored and the
\* estimator's row is missing, so the first evaluation seeds from history.
SeedPrices == {500, 700}

SeedInit ==
  /\ InitCollector
  /\ NoWalk
  /\ NoSched
  /\ botConfigured = TRUE
  /\ streams = [m \in Markets |-> IF m = 1 THEN StreamRecord(FALSE, 0) ELSE NoStream]
  /\ \E warm \in SUBSET {1} :
       /\ raw = [m \in Markets |-> IF m \in warm THEN WarmRows(RAW_TICKS_LIMIT) ELSE <<>>]
       /\ ticks = [m \in Markets |-> IF m \in warm THEN WarmRows(TICKS_LIMIT) ELSE <<>>]
       /\ warmAtStart = [m \in Markets |-> m \in warm]
  /\ ewma = [m \in Markets |-> NoRow]
  /\ alerts = [m \in Markets |-> NoRow]

SeedNext ==
  \/ PollTicks(1)
  \/ BatchDone(1)
  \/ \E price \in SeedPrices, ts \in GateTimestamps : PriceArrives(1, 1, "payload", price, ts)
  \/ \E v \in GateVolumes : VolumeArrives(1, 1, v)
  \/ StoreTick(1, 1)

SeedSpec == SeedInit /\ [][SeedNext]_vars

\* The collector of one market on a store without an estimator whose
\* filtered table holds any history of up to TICKS_LIMIT ticks, of several
\* prices and deltas, oldest first in time.
HistoryTicks == {TickRecord(0, price, 3000, delta) : price \in {200, 500, 900}, delta \in {0, 500}}

Histories ==
  UNION {{[i \in 1..n |-> [h[i] EXCEPT !.ts = i - n]] : h \in [1..n -> HistoryTicks]} :
         n \in 0..TICKS_LIMIT}

ColdInit ==
  /\ InitCollector
  /\ NoWalk
  /\ NoSched
  /\ botConfigured = TRUE
  /\ streams = [m \in Markets |-> IF m = 1 THEN StreamRecord(FALSE, 0) ELSE NoStream]
  /\ \E history \in Histories :
       /\ raw = [m \in Markets |-> IF m = 1 THEN history ELSE <<>>]
       /\ ticks = [m \in Markets |-> IF m = 1 THEN history ELSE <<>>]
       /\ warmAtStart = [m \in Markets |-> m = 1 /\ Len(history) > 0]
  /\ ewma = [m \in Markets |-> NoRow]
  /\ alerts = [m \in Markets |-> NoRow]

ColdNext ==
  \/ PollTicks(1)
  \/ BatchDone(1)
  \/ PriceArrives(1, 1, "payload", 500, Len(obs[1]) + 1)
  \/ VolumeArrives(1, 1, 3000)
  \/ StoreTick(1, 1)

ColdSpec == ColdInit /\ [][ColdNext]_vars

\* One walk of the catalog under every outcome of every page request.
WalkInit ==
  /\ InitCollector
  /\ botConfigured = TRUE
  /\ InitStore({}, {})
  /\ InitWalk
  /\ NoSched

WalkNext ==
  \/ WalkStart
  \/ \E i \in 1..PAGE_WORKERS, outcome \in {"throw", "null", "list"} : PageArrives(i, outcome)
  \/ ProcessPage

WalkSpec == WalkInit /\ [][WalkNext]_vars

\* Every request of the walk completes, and the generator runs on whenever
\* it can.
WalkFairSpec ==
  /\ WalkSpec
  /\ WF_vars(WalkStart)
  /\ WF_vars(ProcessPage)
  /\ WF_vars(\E i \in 1..PAGE_WORKERS, outcome \in {"throw", "null", "list"} : PageArrives(i, outcome))

\* The entry loop over entries that have no children of their own and are
\* not Activated, so that each asks the multi endpoint and then the detail
\* endpoint, under every outcome of every request.
MaxEntries == 3

PlainEntry(topicId) == RawMarket(topicId, 0, 1, "Resolved", 0, 1, <<>>)

\* the topics in order, and the same with the first topic listed twice
LookupLists ==
  {[i \in 1..MaxEntries |-> PlainEntry(((i - 1) % NumTopics) + 1)],
   [i \in 1..MaxEntries |-> PlainEntry(IF i = 2 THEN 1 ELSE ((i - 1) % NumTopics) + 1)]}

Failures == {Outcome(k, NoRaw) : k \in {"notfound", "error", "empty"}}

LookupDetailOutcomes ==
  Failures \cup {Outcome("payload", RawMarket(1, 0, 1, "Activated", 0, 1, <<>>))}

\* a payload without a child list, and one of another chain whose one child
\* lacks its token and is looked up at the detail endpoint
LookupMultiOutcomes ==
  Failures \cup
  {Outcome("payload", RawMarket(1, 0, 1, "Activated", 0, 0, <<>>)),
   Outcome("payload", RawMarket(1, 0, 2, "Activated", 0, 0,
                                <<RawMarket(NumTopics, 11, 0, "Activated", 0, 0, <<>>)>>))}

LookupInit ==
  /\ InitCollector
  /\ botConfigured = TRUE
  /\ InitStore({}, {})
  /\ NoSched
  /\ \E list \in LookupLists : InitEntries(list)

LookupNext ==
  \/ \E outcome \in {NoRequest} \cup LookupMultiOutcomes : FetchChildList(outcome)
  \/ \E outcome \in {NoRequest} \cup LookupDetailOutcomes : EmitParent(outcome)
  \/ \E outcome \in {NoRequest} \cup LookupDetailOutcomes : EmitMultiParent(outcome)
  \/ \E outcome \in {NoRequest} \cup LookupDetailOutcomes : EmitChild(outcome)

LookupSpec == LookupInit /\ [][LookupNext]_vars

\* The entry loop over one entry of topic 1 or none, single or with two
\* children of its own, under every outcome of its lookups.  The first child
\* varies in its status and its resolvedAt, lacks its token, or has a topic
\* of its own; the second is Activated and complete.
ChildShapes ==
  {RawMarket(0, 11, 0, s, r, 1, <<>>) : s \in {"", "Activated", "Resolved"}, r \in {0, 4}}
  \cup {RawMarket(2, 11, 0, "Activated", 0, 0, <<>>), RawMarket(2, 11, 0, "", 0, 1, <<>>)}

ChildLists == {<<a, RawMarket(0, 12, 0, "Activated", 0, 1, <<>>)>> : a \in ChildShapes}

EntryLists ==
  {<<RawMarket(t, m, 1, s, r, y, cl)>> :
     t \in {0, 1}, m \in {0, 7}, s \in {"Activated", "Resolved"}, r \in {0, 4},
     y \in {0, 1}, cl \in {<<>>} \cup ChildLists}

\* the multi endpoint's payloads: of the entry's topic or of another, with a
\* marketId or without, of the entry's chain or of another, with two
\* children, with an empty childList, or without one
EntryMultiOutcomes ==
  Failures
  \cup {Outcome("payload", RawMarket(t, m, c, "Activated", 0, 0, cl)) :
          t \in {1, 3}, m \in {0, 8}, c \in ChainIds, cl \in ChildLists}
  \cup {Outcome("payload", [RawMarket(1, 0, c, "Activated", 0, 1, <<>>)
                              EXCEPT !.hasChildList = TRUE]) : c \in ChainIds}
  \cup {Outcome("payload", RawMarket(1, 0, 1, "Activated", 0, 1, <<>>))}

\* the detail endpoint's payloads: of the entry and of the first child,
\* Activated or Resolved
EntryDetailOutcomes ==
  Failures
  \cup {Outcome("payload", RawMarket(1, 0, 1, s, 0, 1, <<>>)) : s \in {"Activated", "Resolved"}}
  \cup {Outcome("payload", RawMarket(2, 11, 0, "Activated", 0, 1, <<>>))}

EntryInit ==
  /\ InitCollector
  /\ botConfigured = TRUE
  /\ InitStore({}, {})
  /\ NoSched
  /\ \E list \in EntryLists : InitEntries(list)

EntryNext ==
  \/ \E outcome \in {NoRequest} \cup EntryMultiOutcomes : FetchChildList(outcome)
  \/ \E outcome \in {NoRequest} \cup EntryDetailOutcomes : EmitParent(outcome)
  \/ \E outcome \in {NoRequest} \cup EntryDetailOutcomes : EmitMultiParent(outcome)
  \/ \E outcome \in {NoRequest} \cup EntryDetailOutcomes : EmitChild(outcome)

EntrySpec == EntryInit /\ [][EntryNext]_vars

\* ------------------------------------------------- storage: the streams table
\* A column holds NULL (the empty sequence) or a value.  The binder of the
\* SQLite driver binds undefined as NULL; 0 stands for an undefined number
\* of a descriptor.
BindValue(v) == IF v = 0 THEN Null ELSE Some(v)

\* "row.x ?? undefined"
OrUndefined(column) == IF column = Null THEN 0 ELSE column[1]

\* "row.topicId ?? ''", 0 standing for the empty string
OrEmpty(column) == IF column = Null THEN 0 ELSE column[1]

\* "{ ...stream, updatedAt: now }": the descriptor has no cutoffAt
SavedRecord(stream, updatedAt) ==
  [marketId |-> stream.marketId, yesTokenId |-> stream.yesTokenId,
   parentMarketId |-> stream.parentMarketId, topicId |-> stream.topicId,
   marketType |-> stream.marketType, chainId |-> stream.chainId,
   updatedAt |-> updatedAt]

\* the row that insertStream binds from a record; topicId is a string, the
\* empty one included, and @cutoffAt finds no value
StreamRow(record) ==
  [marketId |-> record.marketId, yesTokenId |-> record.yesTokenId,
   parentMarketId |-> BindValue(record.parentMarketId),
   topicId |-> Some(record.topicId),
   marketType |-> BindValue(record.marketType),
   chainId |-> BindValue(record.chainId),
   cutoffAt |-> Null,
   updatedAt |-> record.updatedAt]

\* mutant: the conflict clause of the older schema, which leaves chainId
insertStream_KeepsChain(rows, row) ==
  {r \in rows : r.marketId # row.marketId}
    \cup {IF \E r \in rows : r.marketId = row.marketId
          THEN [row EXCEPT !.chainId = (CHOOSE r \in rows : r.marketId = row.marketId).chainId]
          ELSE row}

\* "INSERT INTO streams ... ON CONFLICT(marketId) DO UPDATE SET ...": every
\* column but the key is replaced
insertStream(rows, row) == {r \in rows : r.marketId # row.marketId} \cup {row}

\* the mapping of listStreams, one record per row
StreamOfRow(row) ==
  [marketId |-> row.marketId, yesTokenId |-> row.yesTokenId,
   parentMarketId |-> OrUndefined(row.parentMarketId),
   topicId |-> OrEmpty(row.topicId),
   marketType |-> OrUndefined(row.marketType),
   chainId |-> OrUndefined(row.chainId),
   cutoffAt |-> OrUndefined(row.cutoffAt),
   updatedAt |-> row.updatedAt]

\* storage.listStreams(), as the set of its records
listStreamRecords(rows) == {StreamOfRow(row) : row \in rows}

\* refreshStreams with the table it writes: the rows, the descriptors it has
\* taken from the generator, and its two counters
NoRefresh == [rows |-> {}, consumed |-> 0, count |-> 0, skippedByTitle |-> 0]

\* the generator is suspended until the loop body has run
BodyDone == streams.consumed = Len(emitted)

\* The body of "for await (const stream of listMarketsPaginated())" for the
\* next descriptor: the title matches TITLE_BLOCKLIST and the descriptor is
\* skipped, or saveStream runs.  The record carries no cutoffAt for the
\* statement's @cutoffAt: the driver binds NULL, or it rejects the record and
\* the catch logs "Failed to persist stream".
SaveStream(titleBlocked, bound) ==
  /\ streams.consumed < Len(emitted)
  /\ LET stream == emitted[streams.consumed + 1].market
         record == SavedRecord(stream, now)
     IN  streams' =
           IF titleBlocked
           THEN [streams EXCEPT !.consumed = @ + 1, !.skippedByTitle = @ + 1]
           ELSE IF ~bound
           THEN [streams EXCEPT !.consumed = @ + 1]
           ELSE [streams EXCEPT !.consumed = @ + 1, !.count = @ + 1,
                                !.rows = insertStream(@, StreamRow(record))]
  /\ UNCHANGED <<sched, walkVars, now, botConfigured, raw, ticks, ewma, alerts, isPolling,
                 poll, task, callSeq, obs, warmAtStart, sentAt, failedAt>>

\* One refresh over the entries of EntrySpec: the entry loop yields, the
\* body of refreshStreams saves.
RefreshInit ==
  /\ InitCollector
  /\ botConfigured = TRUE
  /\ streams = NoRefresh
  /\ raw = [m \in Markets |-> <<>>]
  /\ ticks = [m \in Markets |-> <<>>]
  /\ ewma = [m \in Markets |-> NoRow]
  /\ alerts = [m \in Markets |-> NoRow]
  /\ warmAtStart = [m \in Markets |-> FALSE]
  /\ NoSched
  /\ \E list \in EntryLists : InitEntries(list)

RefreshNext ==
  \/ BodyDone /\ \E outcome \in {NoRequest} \cup EntryMultiOutcomes : FetchChildList(outcome)
  \/ BodyDone /\ \E outcome \in {NoRequest} \cup EntryDetailOutcomes : EmitParent(outcome)
  \/ BodyDone /\ \E outcome \in {NoRequest} \cup EntryDetailOutcomes : EmitMultiParent(outcome)
  \/ BodyDone /\ \E outcome \in {NoRequest} \cup EntryDetailOutcomes : EmitChild(outcome)
  \/ \E titleBlocked \in BOOLEAN, bound \in BOOLEAN : SaveStream(titleBlocked, bound)

RefreshSpec == RefreshInit /\ [][RefreshNext]_vars

\* ------------------------------------------------- http client: wrap
\* What one call of the underlying client settles with.  A response with a
\* 2xx status resolves; everything else rejects with an error that carries
\* a code ("" when it has none) and the status of the response (0 when no
\* response came).
ErrorCodes == {"", "ECONNABORTED", "ECONNRESET"}
ErrorStatuses == {0, 404, 500, 503}
HttpErrors == [kind : {"error"}, code : ErrorCodes, status : ErrorStatuses]
HttpResponse == [kind |-> "response", code |-> "", status |-> 200]
CallOutcomes == HttpErrors \cup {HttpResponse}

\* the backoffs of the attempts, in milliseconds
retries == <<0, 300>>

shouldRetry_Always(error) == TRUE

shouldRetry(error) ==
  \/ error.code = "ECONNABORTED"
  \/ (error.status # 0 /\ error.status >= 500)

\* the head of one round of the loop: a positive backoff is waited for
\* before the call is made
BeforeCall(index) == IF retries[index] > 0 THEN "delay" ELSE "call"

\* http.request / http.get hand the call to wrap; the limiter runs it
HttpRequest ==
  /\ request.pc = "idle"
  /\ request' = [pc |-> BeforeCall(1), index |-> 1, attempts |-> <<>>, thrown |-> <<>>]
  /\ UNCHANGED <<sched, catalog, walk, emitted, okPages, lookup,
                 now, botConfigured, streams, raw, ticks, ewma, alerts, isPolling,
                 poll, task, callSeq, obs, warmAtStart, sentAt, failedAt>>

\* the delay before a later attempt has run out
BackoffElapsed ==
  /\ request.pc = "delay"
  /\ request' = [request EXCEPT !.pc = "call"]
  /\ UNCHANGED <<sched, catalog, walk, emitted, okPages, lookup,
                 now, botConfigured, streams, raw, ticks, ewma, alerts, isPolling,
                 poll, task, callSeq, obs, warmAtStart, sentAt, failedAt>>

\* the awaited call settles: a response is returned, an error is thrown or
\* the loop goes on to the next backoff; after the last round lastError
\* (the error of the last attempt) is thrown
CallSettles(outcome) ==
  /\ request.pc = "call"
  /\ LET attempts == Append(request.attempts, outcome)
         index == request.index
     IN request' =
          IF outcome.kind = "response"
            THEN [request EXCEPT !.pc = "returned", !.attempts = attempts]
          ELSE IF ~shouldRetry(outcome) \/ retries[index] = retries[Len(retries)]
            THEN [request EXCEPT !.pc = "thrown", !.attempts = attempts,
                                 !.thrown = <<outcome>>]
          ELSE IF index = Len(retries)
            THEN [request EXCEPT !.pc = "thrown", !.attempts = attempts,
                                 !.thrown = <<outcome>>]
          ELSE [request EXCEPT !.pc = BeforeCall(index + 1), !.index = index + 1,
                               !.attempts = attempts]
  /\ UNCHANGED <<sched, catalog, walk, emitted, okPages, lookup,
                 now, botConfigured, streams, raw, ticks, ewma, alerts, isPolling,
                 poll, task, callSeq, obs, warmAtStart, sentAt, failedAt>>

HttpInit ==
  /\ InitCollector
  /\ botConfigured = TRUE
  /\ InitStore({}, {})
  /\ catalog = [size |-> 0, reportsTotal |-> FALSE]
  /\ walk = IdleWalk
  /\ emitted = <<>>
  /\ okPages = {}
  /\ lookup = NoLookup
  /\ NoSched

HttpNext ==
  \/ HttpRequest
  \/ BackoffElapsed
  \/ \E outcome \in CallOutcomes : CallSettles(outcome)

HttpSpec == HttpInit /\ [][HttpNext]_vars

\* ------------------------------------------------------------------ claims

Running == {p \in Pollers : poll[p].pc = "running"}

\* C1: pollTicks is non-reentrant: at most one invocation's body runs at any
\* time, and an invocation made while another is in progress returns without
\* touching the store, the tasks, the flag or the notifier.
PollTicksNonReentrant ==
  /\ [](Cardinality(Running) <= 1)
  /\ [][(callSeq' # callSeq /\ Running # {})
          => /\ callSeq'.outcome = "skipped"
             /\ UNCHANGED <<storeVars, isPolling, poll, task, obs, sentAt, failedAt>>]_vars

\* an invocation was skipped while the batch of another was in flight
SkippedWhileRunning ==
  /\ callSeq.outcome = "skipped"
  /\ \E p \in Pollers : /\ poll[p].pc = "running"
                        /\ \E m \in Markets : task[p][m].pc = "volume"

WalkEnded == walk.pc \in {"done", "aborted"}

\* C2: every walk of the catalog terminates, whether or not the venue reports
\* a total and whether page requests succeed or fail, as long as every
\* request completes and finitely many pages hold entries.
WalkTerminates == WalkRunning ~> WalkEnded

\* C3: a page whose request fails (the HTTP call throws, or the response
\* carries a non-zero code) yields no descriptor and does not abort the walk:
\* the walk ends normally having emitted the descriptors of every page whose
\* request returned a list.
FailedPageDoesNotAbortWalk ==
  /\ walk.pc # "aborted"
  /\ \A e \in Range(emitted) : e[1] \in okPages
  /\ walk.pc = "done"
       => \A k \in okPages : \A i \in 1..PageLen(k) : <<k, i>> \in Range(emitted)

LastObs(m) == obs[m][Len(obs[m])]
ObsRow(o) == TickRecord(o.ts, o.yesPrice, o.volume, o.deltaVolume)

\* C4: a tick with volume < MIN_TOTAL_VOLUME and deltaVolume < MIN_DELTA_VOLUME
\* is appended to the raw table only: the step that collects it leaves the
\* filtered table, the EWMA table and the alerts table as they were, reaches
\* no notifier, and adds nothing but this tick to the market's raw rows.
FilteredTickGoesToRawOnly ==
  [][\A m \in Markets :
       (/\ Len(obs'[m]) = Len(obs[m]) + 1
        /\ obs'[m][Len(obs'[m])].volume < MIN_TOTAL_VOLUME
        /\ obs'[m][Len(obs'[m])].deltaVolume < MIN_DELTA_VOLUME)
       => /\ ticks' = ticks /\ ewma' = ewma /\ alerts' = alerts
          /\ sentAt' = sentAt /\ failedAt' = failedAt
          /\ \A p \in Pollers : task'[p][m].pc \in {"none", "done"}
          /\ IsSubSeq(raw'[m], Append(raw[m], ObsRow(obs'[m][Len(obs'[m])])))
          /\ \A other \in Markets \ {m} : raw'[other] = raw[other]]_vars

FilteredTickCollected ==
  /\ Len(obs[1]) > 0
  /\ LastObs(1).volume < MIN_TOTAL_VOLUME
  /\ LastObs(1).deltaVolume < MIN_DELTA_VOLUME
  /\ raw[1][Len(raw[1])] = ObsRow(LastObs(1))
  /\ task[1][1].status = "skipped_filters"

TickKey(rows) ==
  [i \in 1..Len(rows) |-> <<rows[i].ts, rows[i].yesPrice, rows[i].volume>>]

\* C5: for every market the rows of the filtered table are a subsequence of
\* the rows of the raw table, compared by (ts, yesPrice, volume).
FilteredSubsequenceOfRaw ==
  \A m \in Markets : IsSubSeq(TickKey(ticks[m]), TickKey(raw[m]))

\* C6: the raw table never holds more than RAW_TICKS_LIMIT rows of a market
\* and the filtered table never more than TICKS_LIMIT.
RetentionBounds ==
  \A m \in Markets : Len(raw[m]) <= RAW_TICKS_LIMIT /\ Len(ticks[m]) <= TICKS_LIMIT

PrunedBothTables ==
  /\ Len(raw[1]) = RAW_TICKS_LIMIT
  /\ Len(ticks[1]) = TICKS_LIMIT
  /\ Len(raw[1]) + Len(obs[1]) > RAW_TICKS_LIMIT + 1
  /\ \E i \in 1..Len(obs[1]) : obs[1][i].gate = "filters"
  /\ Cardinality({i \in 1..Len(obs[1]) : obs[1][i].gate # "filters"}) >= TICKS_LIMIT
  /\ task[1][1].pc = "done"

\* C7: every persisted tick, raw or filtered, has deltaVolume >= 0.
PersistedDeltaNonNegative ==
  \A m \in Markets :
    /\ \A i \in 1..Len(raw[m]) : raw[m][i].deltaVolume >= 0
    /\ \A i \in 1..Len(ticks[m]) : ticks[m][i].deltaVolume >= 0

DecreasedVolumePersisted ==
  \E i \in 2..Len(obs[1]) :
    /\ obs[1][i].volume < obs[1][i - 1].volume
    /\ ObsRow(obs[1][i]) \in Range(raw[1])
    /\ ObsRow(obs[1][i]) \in Range(ticks[1])

IncreasingTs(o) == \A i \in 2..Len(o) : o[i].ts > o[i - 1].ts

\* C8: for a market without a prior raw tick whose observations carry
\* increasing timestamps, the first deltaVolume is 0 and every later one is
\* max(0, v_i - v_(i-1)), accepted or not; the negative-delta warning is
\* logged exactly for the observations with v_i < v_(i-1).
DeltaFollowsRawVolumes ==
  \A m \in Markets :
    (~warmAtStart[m] /\ IncreasingTs(obs[m])) =>
      \A i \in 1..Len(obs[m]) :
        /\ obs[m][i].deltaVolume =
             IF i = 1 THEN 0 ELSE Max(0, obs[m][i].volume - obs[m][i - 1].volume)
        /\ obs[m][i].warned <=> (i > 1 /\ obs[m][i].volume < obs[m][i - 1].volume)

VolumeResetScenario ==
  /\ ~warmAtStart[1]
  /\ Len(obs[1]) = 3
  /\ IncreasingTs(obs[1])
  /\ <<obs[1][1].volume, obs[1][2].volume, obs[1][3].volume>> = <<1000, 1200, 900>>
  /\ <<obs[1][1].deltaVolume, obs[1][2].deltaVolume, obs[1][3].deltaVolume>> = <<0, 200, 0>>
  /\ <<obs[1][1].warned, obs[1][2].warned, obs[1][3].warned>> = <<FALSE, FALSE, TRUE>>
  /\ obs[1][1].gate = "filters" /\ obs[1][2].gate # "filters"

NotifierFailureLeavesAlertState ==
  [][\A m \in Markets :
       failedAt'[m] # failedAt[m] =>
         /\ alerts'[m] = alerts[m]
         /\ \A p \in Pollers :
              task[p][m].pc = "notify" =>
                (task'[p][m].pc = "store" /\ ~task'[p][m].alertSent)]_vars

DeliveredSoonAfterFailure ==
  /\ Len(failedAt[1]) > 0
  /\ Len(sentAt[1]) > 0
  /\ sentAt[1][1] >= failedAt[1][1]
  /\ sentAt[1][1] - failedAt[1][1] < ALERT_COOLDOWN
  /\ Len(obs[1]) >= 2

\* the minimum change the spec's table gives for a price
ZoneMinimum(p) ==
  IF p < 10 \/ p > 990 THEN 70
  ELSE IF p < 30 \/ p > 970 THEN 100
  ELSE 150

\* the score of observation o against the state it was evaluated from
ScoreBefore(o) ==
  (Abs(computeEwmaZ(o.yesPrice, o.before.priceMean, o.before.priceVar, MIN_STD_PRICE))
     * calculateVolumeBoost(computeEwmaZ(o.deltaVolume, o.before.volumeMean,
                                         o.before.volumeVar, MIN_STD_VOLUME))) \div 100

Detected(o) ==
  /\ o.before.tickCount >= 20
  /\ o.before.lastPrice > 0
  /\ Abs(o.yesPrice - o.before.lastPrice) >= ZoneMinimum(o.yesPrice)
  /\ ScoreBefore(o) >= 250

\* C11: a tick reaches the notifier only if, for the state before its
\* update, tickCount >= 20, lastPrice > 0, the absolute price change reaches
\* the minimum of the tick's price zone, and |z_price| * boost reaches the
\* threshold, both Z-scores taken against the pre-update mean and variance.
NotifiedOnlyIfDetected ==
  \A m \in Markets :
    /\ \A i \in 1..Len(obs[m]) : obs[m][i].gate = "notify" => Detected(obs[m][i])
    /\ \A p \in Pollers :
         task[p][m].pc = "notify" => (Len(obs[m]) > 0 /\ LastObs(m).gate = "notify")
    /\ Len(sentAt[m]) + Len(failedAt[m])
         <= Cardinality({i \in 1..Len(obs[m]) : obs[m][i].gate = "notify"})

\* a tick in the deep-extreme zone was handed to the notifier after one that
\* was stopped by the price-change gate
ExtremeZoneNotified ==
  /\ Len(obs[1]) >= 2
  /\ LastObs(1).gate = "notify"
  /\ LastObs(1).yesPrice < 10
  /\ obs[1][1].gate = "price_change_too_small"
  /\ Len(sentAt[1]) = 1

\* C13: on a market whose history is clustered at 0.995, an accepted tick at
\* 0.92 with deltaVolume 400, with no blocklist match and no prior alert, is
\* handed to the notifier.
ExtremeZonePass ==
  \A i \in 1..Len(obs[1]) :
    (/\ obs[1][i].before.tickCount >= 20
     /\ obs[1][i].before.lastPrice = 995
     /\ Abs(obs[1][i].before.priceMean - 99500) <= 100
     /\ Sqrt(obs[1][i].before.priceVar) <= 1
     /\ obs[1][i].yesPrice = 920
     /\ obs[1][i].deltaVolume = 400
     /\ ~isStreamBlocked(1)
     /\ Len(sentAt[1]) = 0 /\ alerts[1] = NoRow)
    => obs[1][i].gate = "notify"

Accepted(m) == {i \in 1..Len(obs[m]) : obs[m][i].gate # "filters"}
Handed(m) == {i \in 1..Len(obs[m]) : obs[m][i].gate = "notify"}
AtNotifier(m) == {p \in Pollers : task[p][m].pc = "notify"}

NoRecentAlert(m) ==
  alerts[m] = NoRow \/ now - alerts[m].lastAlertAt >= 6

\* C12: a tick that is detected on a market that is not blocklisted and has
\* had no alert in the last 6 hours is handed to the notifier, once; when
\* the notifier succeeds the alert row gets the current time and the hash of
\* this detection, and evaluateStream returns trigger.
DetectedTickTriggers ==
  /\ [](\A m \in Markets :
          /\ Cardinality(AtNotifier(m)) <= 1
          /\ botConfigured =>
               Len(sentAt[m]) + Len(failedAt[m]) + Cardinality(AtNotifier(m))
                 = Cardinality(Handed(m)))
  /\ [][\A m \in Markets :
          (/\ Len(obs'[m]) = Len(obs[m]) + 1
           /\ Detected(obs'[m][Len(obs'[m])])
           /\ ~isStreamBlocked(m)
           /\ NoRecentAlert(m))
          => /\ obs'[m][Len(obs'[m])].gate = "notify"
             /\ AtNotifier(m) = {} /\ Cardinality(AtNotifier(m)') = 1]_vars
  /\ [][\A m \in Markets : \A p \in Pollers :
          (/\ task[p][m].pc = "notify" /\ task'[p][m].pc # "notify"
           /\ failedAt'[m] = failedAt[m])
          => /\ alerts'[m] = [lastAlertAt |-> now, lastAlertHash |-> task[p][m].alertHash]
             /\ task'[p][m].pc = "store"
             /\ task'[p][m].alertSent]_vars

\* the scenario of the claim: warm history at 0.50, then 0.70 with
\* deltaVolume 200, delivered and stored
MiddleZoneTrigger ==
  /\ Len(obs[1]) = 1
  /\ obs[1][1].before.lastPrice = 500
  /\ obs[1][1].yesPrice = 700 /\ obs[1][1].deltaVolume = 200
  /\ obs[1][1].gate = "notify"
  /\ Len(sentAt[1]) = 1
  /\ alerts[1] # NoRow
  /\ alerts[1].lastAlertAt = sentAt[1][1]
  /\ task[1][1].status = "stored" /\ task[1][1].alertSent

\* C14: every evaluation persists a state whose tickCount is one more than
\* that of the state it started from and whose lastPrice is the tick's
\* price, whatever gate stops it and whether or not the notifier fails;
\* nothing else writes the state, so tickCount counts the ticks consumed
\* since the zero sentinel.
EwmaAdvancesByOne ==
  /\ [](\A m \in Markets :
          ewma[m] # NoRow =>
            ewma[m].tickCount
              = (IF warmAtStart[m] THEN ClusterTicks ELSE 0) + Cardinality(Accepted(m)))
  /\ [][\A m \in Markets :
          IF Len(obs'[m]) = Len(obs[m]) + 1 /\ obs'[m][Len(obs'[m])].gate # "filters"
          THEN /\ ewma'[m].tickCount = obs'[m][Len(obs'[m])].before.tickCount + 1
               /\ ewma'[m].lastPrice = obs'[m][Len(obs'[m])].yesPrice
               /\ obs'[m][Len(obs'[m])].before = (IF ewma[m] = NoRow THEN NoEwma ELSE ewma[m])
          ELSE ewma'[m] = ewma[m]]_vars

\* a settled market: the notifier failed on the first tick, the score gate
\* stopped the second, and both were consumed
ConsumedDespiteFailure ==
  /\ warmAtStart[1] /\ Len(obs[1]) = 2
  /\ obs[1][1].gate = "notify" /\ Len(failedAt[1]) = 1 /\ Len(sentAt[1]) = 0
  /\ obs[1][2].gate = "score_below_threshold"
  /\ ewma[1].tickCount = ClusterTicks + 2
  /\ ewma[1].lastPrice = obs[1][2].yesPrice

TitleMatches(m) == streams[m].titleBlocked

ParentMatchesOnChain(m) ==
  /\ streams[m].parentMarketId # 0
  /\ streams[streams[m].parentMarketId].tracked
  /\ streams[streams[m].parentMarketId].titleBlocked
  /\ streams[streams[m].parentMarketId].chainId = streams[m].chainId

\* C15: no tick of a market whose title matches the blocklist reaches the
\* notifier, nor one of a child whose parent's title matches it on the same
\* chain; and the blocklist gate stops a tick only in these two cases, a
\* parent of another chain being left out of account.
BlocklistRespectsChain ==
  \A m \in Markets : \A i \in 1..Len(obs[m]) :
    /\ (TitleMatches(m) \/ ParentMatchesOnChain(m)) => obs[m][i].gate # "notify"
    /\ obs[m][i].gate = "blocklist" => (TitleMatches(m) \/ ParentMatchesOnChain(m))

PollBegun ==
  \/ callSeq.outcome # "none"
  \/ \E p \in Pollers : poll[p].pc # "idle"
  \/ \E p \in Pollers, m \in Markets : task[p][m].pc # "none"

\* C16: at startup the refresh runs to completion before the first pollTicks
\* begins, that poll completes before the timers are installed, and no timer
\* callback runs before both have finished.
StartupInOrder ==
  /\ [](sched.pc \in {"boot", "refreshing"} => ~PollBegun)
  /\ [](sched.pc \in {"boot", "refreshing", "polling", "exited"} => sched.fired = {})
  /\ [][(sched.pc # "polling" /\ sched'.pc = "polling")
          => (walk.pc = "done" /\ walk'.pc = "done")]_vars
  /\ [][(sched.pc # "scheduled" /\ sched'.pc = "scheduled")
          => /\ callSeq.outcome # "none"
             /\ isPolling = FALSE
             /\ \A p \in Pollers : poll[p].pc = "idle"
             /\ \A p \in Pollers, m \in Markets : task[p][m].pc \in {"none", "done"}]_vars

\* every timer has fired after a startup poll that collected a tick
TimersAfterStartup ==
  /\ sched.pc = "scheduled"
  /\ {"refresh", "poll", "heartbeat"} \subseteq sched.fired
  /\ Len(obs[1]) >= 2
  /\ task[2][1].status = "stored"

\* C17: every invocation of pollTicks by the scheduler, at startup or from
\* the minute timer, is made at a minute outside the blackout window of the
\* scheduler's variant.
NoPollInBlackout ==
  [][callSeq' # callSeq => ~isBlackoutWindow]_vars


RequestsOf(endpoint) == SelectSeq(lookup.requests, LAMBDA r : r.endpoint = endpoint)

\* the stop-th consecutive not-found of an endpoint's requests is the i-th
NotFoundRun(reqs, stop, i) ==
  i >= stop /\ \A j \in (i - stop + 1)..i : reqs[j].kind = "notfound"

BreakerOpen(endpoint, stop) ==
  LET reqs == RequestsOf(endpoint)
  IN  \A i \in 1..Len(reqs) : NotFoundRun(reqs, stop, i) => i = Len(reqs)

RequestMade(endpoint) ==
  /\ Len(lookup'.requests) = Len(lookup.requests) + 1
  /\ lookup'.requests[Len(lookup'.requests)].endpoint = endpoint

\* C18: within one walk no request follows the N-th consecutive not-found of
\* the detail endpoint, nor of the multi endpoint, and a request of one
\* endpoint leaves the counter and the switch of the other as they were.
BreakerPerEndpoint ==
  /\ [](BreakerOpen("detail", DETAIL_NOT_FOUND_STOP) /\ BreakerOpen("multi", MULTI_NOT_FOUND_STOP))
  /\ [][/\ RequestMade("multi")
             => /\ lookup'.detailNotFoundStreak = lookup.detailNotFoundStreak
                /\ lookup'.skipDetailRequests = lookup.skipDetailRequests
        /\ RequestMade("detail")
             => /\ lookup'.multiNotFoundStreak = lookup.multiNotFoundStreak
                /\ lookup'.skipMultiRequests = lookup.skipMultiRequests]_vars

\* the detail endpoint answered not-found N times with a not-found of the
\* multi endpoint in between, and the walk went through a later entry of a
\* new topic that is not Activated without asking the detail endpoint again
DetailBreakerTripped ==
  /\ lookup.pc = "done"
  /\ Len(lookup.list) = MaxEntries
  /\ \A i, j \in 1..MaxEntries : i # j => lookup.list[i].topicId # lookup.list[j].topicId
  /\ LET reqs == RequestsOf("detail")
     IN  /\ Len(reqs) = DETAIL_NOT_FOUND_STOP
         /\ \A i \in 1..Len(reqs) : reqs[i].kind = "notfound"
         /\ reqs[Len(reqs)].topicId # lookup.list[MaxEntries].topicId
  /\ \E i, j, k \in 1..Len(lookup.requests) :
        /\ i < j /\ j < k
        /\ lookup.requests[i].endpoint = "detail"
        /\ lookup.requests[j].endpoint = "multi" /\ lookup.requests[j].kind = "notfound"
        /\ lookup.requests[k].endpoint = "detail"
  /\ lookup.requests[Len(lookup.requests)].endpoint = "multi"
  /\ lookup.requests[Len(lookup.requests)].topicId = lookup.list[MaxEntries].topicId
  /\ emitted = <<>>


\* the descriptors the walk has yielded for the current entry in a role
YieldedAs(items, role) ==
  {items[i].market : i \in {j \in 1..Len(items) : /\ items[j].entry = lookup.next
                                                   /\ items[j].role = role}}

\* the multi endpoint's payload was attached with children of another chain
AlternateChain ==
  /\ lookup.multiParent # Null
  /\ Len(lookup.childList) > 0
  /\ lookup.multiParent[1].chainId # lookup.rawMarket.chainId

\* the descriptors yielded for the parent the children belong to: the multi
\* endpoint's payload when one was attached, else the list entry
ParentYielded(items) ==
  IF lookup.multiParent # Null THEN YieldedAs(items, "multiParent")
  ELSE YieldedAs(items, "entry")

\* a child that is complete and passes the activity check with the entry's
\* statusEnum as the fallback
ActiveChild(childMarket) ==
  /\ childMarket.marketId # 0
  /\ childMarket.yesTokenId # 0
  /\ isActivated(childMarket, lookup.rawMarket.statusEnum)
  /\ isActiveByTime(childMarket, NowMs)

EntryEnds == lookup.pc \in {"multiParent", "children"} /\ lookup'.next = lookup.next + 1

\* C19: a child is yielded with the marketId of the descriptor yielded for
\* its parent as its parentMarketId; and when the multi endpoint's payload is
\* of another chain than the list entry, the walk has yielded, by the end of
\* the entry, the entry if it is active, the payload as a parent, and every
\* active child with the latter's marketId as its parentMarketId.
ChildrenPointAtParent ==
  [][/\ (Len(emitted') = Len(emitted) + 1 /\ emitted'[Len(emitted')].role = "child")
          => \A parent \in ParentYielded(emitted) :
                emitted'[Len(emitted')].market.parentMarketId = parent.marketId
     /\ (EntryEnds /\ AlternateChain)
          => /\ (isActivated(lookup.rawMarket, "") /\ isActiveByTime(lookup.rawMarket, NowMs))
                  => YieldedAs(emitted', "entry") # {}
             /\ YieldedAs(emitted', "multiParent") # {}
             /\ \A j \in 1..Len(lookup.childList) :
                   ActiveChild(lookup.childList[j])
                     => \E i \in 1..Len(emitted') :
                           /\ emitted'[i].entry = lookup.next
                           /\ emitted'[i].role = "child"
                           /\ emitted'[i].child = j
                           /\ \A parent \in YieldedAs(emitted', "multiParent") :
                                 emitted'[i].market.parentMarketId = parent.marketId]_vars

\* the detail endpoint's payload for the entry, or null
DetailOf(rawMarket) ==
  IF rawMarket.topicId # 0 /\ Cached(lookup'.detailCache, rawMarket.topicId)
  THEN lookup'.detailCache[rawMarket.topicId][1]
  ELSE Null

\* C20: a list entry with a marketId or a topicId that has children, its own
\* or those attached from the multi endpoint, is yielded as a parent whether
\* it is active or not; an entry without children is yielded only if it is
\* active by time and Activated, by its own status or by the detail
\* endpoint's.
ParentEmittedWithChildren ==
  [][(lookup.pc = "parent" /\ lookup'.pc = "multiParent")
       => /\ (Len(lookup.rawMarket.childList) > 0
              /\ (lookup.rawMarket.marketId # 0 \/ lookup.rawMarket.topicId # 0))
                => YieldedAs(emitted', "entry") # {}
          /\ (Len(lookup.rawMarket.childList) = 0 /\ YieldedAs(emitted', "entry") # {})
                => /\ isActiveByTime(lookup.rawMarket, NowMs)
                   /\ \/ isActivated(lookup.rawMarket, "")
                      \/ /\ DetailOf(lookup.rawMarket) # Null
                         /\ isActivated(DetailOf(lookup.rawMarket)[1],
                                        lookup.rawMarket.statusEnum)]_vars


\* the input has no token and has children
MultiParentInput(input) == input.yesTokenId = 0 /\ Len(input.childList) > 0

\* C21: every descriptor the walk yields has a token; the token is the
\* placeholder of its marketId exactly when the input it was normalized from
\* has no token and has children, and then its marketType is 1; no
\* descriptor comes from an input with neither a token nor children.
TokenOrPlaceholder ==
  \A i \in 1..Len(emitted) :
     LET d == emitted[i].market
         input == emitted[i].source
     IN  /\ d.yesTokenId # 0
         /\ (d.yesTokenId = 0 - d.marketId) <=> MultiParentInput(input)
         /\ MultiParentInput(input) => d.marketType = 1
         /\ input.yesTokenId # 0 \/ Len(input.childList) > 0

\* the walk has yielded a parent under its placeholder and a child of it
\* under its own token
PlaceholderParentYielded ==
  \E i, j \in 1..Len(emitted) :
     /\ emitted[i].role = "entry"
     /\ emitted[i].market.yesTokenId = 0 - emitted[i].market.marketId
     /\ emitted[i].market.marketType = 1
     /\ emitted[j].role = "child"
     /\ emitted[j].market.yesTokenId = emitted[j].source.yesTokenId
     /\ emitted[j].market.parentMarketId = emitted[i].market.marketId


\* the callers whose collectTickForStream for market m has begun and not
\* returned
InFlight(m) ==
  {p \in Pollers : task[p][m].pc \in {"price", "volume", "notify", "store"}}

\* C22: no market has two collectTickForStream executions in flight at once,
\* whoever calls pollTicks and whenever; and the estimator row, the alert row
\* and the tick tables of a market change only in a step of the one
\* execution in flight for it.
OneCollectPerMarket ==
  /\ [](\A m \in Markets : Cardinality(InFlight(m)) <= 1)
  /\ [][\A m \in Markets :
          (ewma'[m] # ewma[m] \/ alerts'[m] # alerts[m] \/ raw'[m] # raw[m]
             \/ ticks'[m] # ticks[m])
            => \E p \in InFlight(m) :
                  /\ task'[p][m] # task[p][m]
                  /\ \A q \in Pollers \ {p} : task'[q][m] = task[q][m]]_vars

\* a market collected before is in flight again, its estimator written and
\* its tick not yet stored, and an invocation of pollTicks made meanwhile
\* was skipped
SecondCollectAlone ==
  \E m \in Markets, p \in Pollers :
     /\ task[p][m].pc = "store"
     /\ Len(raw[m]) >= 1
     /\ ewma[m] # NoRow /\ ewma[m].tickCount = 2
     /\ callSeq.outcome = "skipped"

\* ------------------------------------------------------------------ C23
\* the markets of the batch that caller p is collecting
CurrentBatch(p) == Batch(poll[p].streams, poll[p].i)

\* C23: an exception while one market is collected (a failed fetch, a failed
\* statement of the store, in the collector or in the detector) ends that
\* market's task with the result "error" and nothing else: the step leaves
\* the poll and the other tasks as they were, every market of the batch has
\* its task, and the poll moves only from a finished batch to the next one,
\* ending after the last, whatever the results of the tasks.
ErrorStaysInItsTask ==
  /\ [](\A p \in Pollers : poll[p].pc = "running" =>
          \A m \in CurrentBatch(p) : task[p][m].pc # "none")
  /\ [][\A p \in Pollers, m \in Markets :
          (task'[p][m].status = "error" /\ task[p][m].status # "error")
            => /\ task[p][m].pc \in {"price", "volume", "store"}
               /\ task'[p][m].pc = "done"
               /\ poll'[p] = poll[p]
               /\ isPolling'
               /\ \A m2 \in Markets \ {m} : task'[p][m2] = task[p][m2]]_vars
  /\ [][\A p \in Pollers :
          (poll[p].pc = "running" /\ poll'[p] # poll[p])
            => /\ \A m \in CurrentBatch(p) : task[p][m].pc = "done"
               /\ IF poll[p].i + BATCH_SIZE <= Len(poll[p].streams)
                  THEN /\ poll'[p] = [poll[p] EXCEPT !.i = @ + BATCH_SIZE]
                       /\ \A m \in Batch(poll[p].streams, poll[p].i + BATCH_SIZE) :
                            task'[p][m].pc = "price"
                  ELSE poll'[p] = IdlePoll]_vars

\* the first poll has reached a later batch and stored a tick of it, after a
\* first batch of which one market ended in error (nothing of it is stored)
\* and another was stored
LaterBatchAfterError ==
  \E p \in Pollers :
    /\ poll[p].pc = "running"
    /\ poll[p].i > 1
    /\ \E m1, m2 \in Batch(poll[p].streams, 1) :
         /\ raw[m1] = <<>> /\ obs[m1] # <<>>
         /\ Len(raw[m2]) = 1
    /\ \E m3 \in CurrentBatch(p) : task[p][m3].status = "stored" /\ Len(raw[m3]) = 1

\* ------------------------------------------------------------------ C24
\* C24: a refresh that fails, at startup or from the hourly timer, does not
\* abort what follows: the process lives on, so that later refreshes and
\* polls can still occur.
RefreshFailureSurvived == walk.pc = "aborted" => sched.pc # "exited"

\* ------------------------------------------------------------------ C25
\* a collect of market m that obtained a price payload and a volume returns
CollectEnds(p, m) ==
  /\ task[p][m].pc \in {"volume", "store"}
  /\ task'[p][m].pc = "done"
  /\ task'[p][m].status \in {"skipped_filters", "stored"}

\* the observations of m whose collect has returned
Returned(m) ==
  Len(obs[m]) - Cardinality({p \in Pollers : task[p][m].pc \in {"notify", "store"}})

SameDescriptor(record, stream) ==
  /\ record.marketId = stream.marketId
  /\ record.yesTokenId = stream.yesTokenId
  /\ record.parentMarketId = stream.parentMarketId
  /\ record.topicId = stream.topicId
  /\ record.marketType = stream.marketType
  /\ record.chainId = stream.chainId
  /\ record.cutoffAt = 0

SeedTicks(m) == IF warmAtStart[m] THEN Min(TICKS_LIMIT, WarmTicks) ELSE 0

\* C27: the detector has run to its end, the write of the estimator
\* included, when an accepted tick is appended to the filtered table: the
\* appending step finds the estimator already holding the tick and leaves
\* it; the step that writes the estimator leaves the filtered table and, on
\* a cold start, seeds from a history read from that table, which the tick
\* is not part of; and the estimator has counted its seed and each accepted
\* tick once.
DetectorBeforeStore ==
  /\ [](\A m \in Markets :
          ewma[m] # NoRow => ewma[m].tickCount = SeedTicks(m) + Cardinality(Accepted(m)))
  /\ [][\A m \in Markets :
          ticks'[m] # ticks[m]
            => \E p \in Pollers :
                 /\ task[p][m].pc = "store"
                 /\ ewma[m] # NoRow
                 /\ ewma'[m] = ewma[m]
                 /\ ewma[m].lastPrice = task[p][m].tick.yesPrice
                 /\ ticks'[m] \in insertTickWithPrune(ticks[m], task[p][m].tick)]_vars
  /\ [][\A m \in Markets :
          ewma'[m] # ewma[m]
            => LET o == obs'[m][Len(obs'[m])]
               IN  /\ Len(obs'[m]) = Len(obs[m]) + 1
                   /\ ticks'[m] = ticks[m]
                   /\ ewma'[m] = updateEwmaState(o.before, ObsRow(o))
                   /\ ewma[m] = NoRow
                        => \E history \in Recent(ticks[m], TICKS_LIMIT) :
                             o.before = initializeEwmaFromTicks(history)]_vars

\* a market with stored history and no estimator: the first accepted tick
\* was evaluated against the seed of the stored history, then stored
SeededThenStored ==
  /\ warmAtStart[1]
  /\ Len(obs[1]) = 1
  /\ obs[1][1].gate # "filters"
  /\ obs[1][1].before.tickCount = SeedTicks(1)
  /\ ewma[1].tickCount = SeedTicks(1) + 1
  /\ task[1][1].status = "stored"
  /\ ticks[1][Len(ticks[1])] = ObsRow(obs[1][1])

\* ------------------------------------------------------------------ C28
\* the online update applied to the ticks history[i], ..., history[1] in
\* turn, history being newest first
RECURSIVE UpdatedThrough(_, _, _)
UpdatedThrough(state, history, i) ==
  IF i = 0 THEN state
  ELSE UpdatedThrough(updateEwmaState(state, history[i]), history, i - 1)

\* the means set to the oldest tick with zero variances, then one online
\* update per remaining tick, oldest first; the zero sentinel without ticks
SeedByUpdates(history) ==
  IF Len(history) = 0 THEN EwmaState(0, 0, 0, 0, 0, 0)
  ELSE LET oldest == history[Len(history)]
       IN  UpdatedThrough(EwmaState(oldest.yesPrice * 100, 0, oldest.deltaVolume * 100, 0,
                                    oldest.yesPrice, 1),
                          history, Len(history) - 1)

\* C28: the state a cold start seeds from the stored history is the state
\* of the oldest tick (its price and deltaVolume as means, zero variances)
\* updated online once per later tick, oldest first; its tickCount is the
\* number of seed ticks and its lastPrice the newest tick's price; an empty
\* history gives the zero sentinel with tickCount 0.
SeedEqualsOnlineUpdates ==
  [][\A m \in Markets :
       (ewma[m] = NoRow /\ ewma'[m] # NoRow)
         => LET before == obs'[m][Len(obs'[m])].before
            IN  \E history \in Recent(ticks[m], TICKS_LIMIT) :
                  /\ before = SeedByUpdates(history)
                  /\ before.tickCount = Len(history)
                  /\ Len(history) > 0 => before.lastPrice = history[1].yesPrice
                  /\ Len(history) = 0 => before = EwmaState(0, 0, 0, 0, 0, 0)]_vars

\* a cold start over a history of at least two ticks of different prices and
\* deltas has been evaluated, the tick not yet stored
SeededFromMixedHistory ==
  /\ task[1][1].pc = "store"
  /\ Len(obs[1]) = 1
  /\ Len(ticks[1]) >= 2
  /\ ticks[1][1].yesPrice # ticks[1][2].yesPrice
  /\ ticks[1][1].deltaVolume # ticks[1][2].deltaVolume
  /\ obs[1][1].before.tickCount = Len(ticks[1])
  /\ obs[1][1].before.lastPrice = ticks[1][Len(ticks[1])].yesPrice
  /\ obs[1][1].before.priceVar > 0

\* ------------------------------------------------------------------ C29
\* C29: within one walk no two requests go to the same endpoint for the
\* same topicId, whatever the first one came to (a payload, no payload,
\* not-found or another error): a later lookup of the topic makes no
\* request, and a request is made only for a topic the endpoint's memo does
\* not hold and fills the memo.
OneRequestPerTopic ==
  /\ [](\A i, j \in 1..Len(lookup.requests) :
          (i # j /\ lookup.requests[i].endpoint = lookup.requests[j].endpoint)
            => lookup.requests[i].topicId # lookup.requests[j].topicId)
  /\ [][/\ RequestMade("detail")
             => LET t == lookup'.requests[Len(lookup'.requests)].topicId
                IN  lookup.detailCache[t] = <<>> /\ lookup'.detailCache[t] # <<>>
        /\ RequestMade("multi")
             => LET t == lookup'.requests[Len(lookup'.requests)].topicId
                IN  lookup.multiCache[t] = <<>> /\ lookup'.multiCache[t] # <<>>]_vars

\* the walk is through two entries of one topic: each endpoint was asked
\* once for it, the multi endpoint answering not-found and the detail
\* endpoint failing otherwise, and neither breaker is open
FailedLookupNotRepeated ==
  /\ lookup.next >= 3
  /\ lookup.list[1].topicId = lookup.list[2].topicId
  /\ ~lookup.skipDetailRequests /\ ~lookup.skipMultiRequests
  /\ \E i, j \in 1..Len(lookup.requests) :
       /\ lookup.requests[i]
            = [endpoint |-> "multi", topicId |-> lookup.list[1].topicId, kind |-> "notfound"]
       /\ lookup.requests[j]
            = [endpoint |-> "detail", topicId |-> lookup.list[1].topicId, kind |-> "error"]
  /\ Len(lookup.requests) = 2

\* ------------------------------------------------------------------ C30
\* what the request made in this step came to
LastRequestKind == lookup'.requests[Len(lookup'.requests)].kind

\* C30: a request that returns a payload resets its endpoint's counter of
\* consecutive not-founds to 0, and a request that fails with an error other
\* than 10200 leaves the counter at the value it had.
OtherErrorKeepsStreak ==
  [][/\ RequestMade("detail")
         => /\ LastRequestKind = "payload" => lookup'.detailNotFoundStreak = 0
            /\ LastRequestKind = "error"
                 => lookup'.detailNotFoundStreak = lookup.detailNotFoundStreak
     /\ RequestMade("multi")
         => /\ LastRequestKind = "payload" => lookup'.multiNotFoundStreak = 0
            /\ LastRequestKind = "error"
                 => lookup'.multiNotFoundStreak = lookup.multiNotFoundStreak]_vars

\* ------------------------------------------------------------------ C31
\* the markets for which caller p has a collect that has not returned
Collecting(p) == {m \in Markets : task[p][m].pc \notin {"none", "done"}}

\* C31: a poll goes through its snapshot in consecutive batches of at most
\* BATCH_SIZE markets.  The snapshot lists no market twice; at most
\* BATCH_SIZE collects are in flight, all of the current batch; a collect
\* starts only for a market of the batch that begins in that step, which is
\* the first batch of a new poll or the batch right after one whose collects
\* have all returned; and the poll ends only after its last batch.
BatchesInTurn ==
  /\ [](\A p \in Pollers :
          poll[p].pc = "running"
            => /\ \A j, k \in 1..Len(poll[p].streams) :
                    j # k => poll[p].streams[j] # poll[p].streams[k]
               /\ Cardinality(Collecting(p)) <= BATCH_SIZE
               /\ Collecting(p) \subseteq CurrentBatch(p)
               /\ \A m \in Markets \ CurrentBatch(p) : task[p][m].pc = "none")
  /\ [][\A p \in Pollers, m \in Markets :
          (task'[p][m].pc = "price" /\ task[p][m].pc # "price")
            => /\ m \in Batch(poll'[p].streams, poll'[p].i)
               /\ \/ poll[p].pc = "idle" /\ poll'[p].i = 1
                  \/ /\ poll[p].pc = "running"
                     /\ Collecting(p) = {}
                     /\ poll'[p].streams = poll[p].streams
                     /\ poll'[p].i = poll[p].i + BATCH_SIZE]_vars
  /\ [][\A p \in Pollers :
          (poll[p].pc = "running" /\ poll'[p].pc = "idle")
            => /\ Collecting(p) = {}
               /\ poll[p].i + BATCH_SIZE > Len(poll[p].streams)]_vars

\* the second batch is being collected, every market of the first batch
\* having returned, one of them in error
SecondBatchInFlight ==
  /\ poll[1].pc = "running"
  /\ poll[1].i = 1 + BATCH_SIZE
  /\ \E m \in CurrentBatch(1) : task[1][m].pc = "volume"
  /\ \A m \in Batch(poll[1].streams, 1) : task[1][m].pc = "none"
  /\ \E m \in Batch(poll[1].streams, 1) : raw[m] = <<>>
  /\ \E m \in Batch(poll[1].streams, 1) : Len(raw[m]) = 1

\* ------------------------------------------------------------------ C32
\* the table has a row of this tick
Holds(rows, tick) == \E i \in 1..Len(rows) : rows[i] = tick

\* C32: once pushRawAndTick has returned, the accepted tick is in the raw
\* table and in the filtered table, both prunes applied; it is never in
\* exactly one of the two.
TickInBothTables ==
  [][\A p \in Pollers, m \in Markets :
       (task[p][m].pc = "store" /\ task'[p][m].status = "stored")
         => /\ Holds(raw'[m], task[p][m].tick)
            /\ Holds(ticks'[m], task[p][m].tick)]_vars

\* ------------------------------------------------------------------ C33
\* C33: the delta of an observation is taken against the volume of the raw
\* tick persisted last for the market, the observation right before it,
\* whatever the upstream timestamps are (nothing has been pruned yet).
DeltaAgainstLastPersisted ==
  \A m \in Markets :
    (~warmAtStart[m] /\ Len(obs[m]) <= RAW_TICKS_LIMIT) =>
      \A i \in 2..Len(obs[m]) :
        obs[m][i].deltaVolume = Max(0, obs[m][i].volume - obs[m][i - 1].volume)

\* ------------------------------------------------------------------ C34
\* C34: a request makes at most two attempts; a second attempt is made only
\* after the first one failed with code ECONNABORTED or with a response
\* status of 500 or more; any other error of the first attempt is what the
\* request throws, after that one attempt; an error of the second attempt
\* is always what the request throws.
Retriable(error) ==
  error.kind = "error" /\ (error.code = "ECONNABORTED" \/ error.status \in {500, 503})

AtMostTwoAttempts ==
  LET attempts == request.attempts
      made == Len(attempts) + (IF request.pc \in {"delay", "call"} THEN 1 ELSE 0)
  IN /\ made <= 2
     /\ made = 2 => Retriable(attempts[1])
     /\ (Len(attempts) >= 1 /\ attempts[1].kind = "error" /\ ~Retriable(attempts[1]))
          => (Len(attempts) = 1 /\ request.pc = "thrown" /\ request.thrown = <<attempts[1]>>)
     /\ (Len(attempts) = 2 /\ attempts[2].kind = "error")
          => (request.pc = "thrown" /\ request.thrown = <<attempts[2]>>)
     /\ (Len(attempts) >= 1 /\ attempts[Len(attempts)].kind = "response")
          => request.pc = "returned"

SecondAttemptFailed ==
  /\ request.pc = "thrown"
  /\ Len(request.attempts) = 2
  /\ request.attempts[1].status = 503
  /\ request.attempts[2].code = "ECONNABORTED"

\* ------------------------------------------------------------------ C35
\* the Z-scores of observation o against the state it was evaluated from
PriceZBefore(o) ==
  computeEwmaZ(o.yesPrice, o.before.priceMean, o.before.priceVar, MIN_STD_PRICE)
VolumeZBefore(o) ==
  computeEwmaZ(o.deltaVolume, o.before.volumeMean, o.before.volumeVar, MIN_STD_VOLUME)

\* the accepted ticks of market m that went past the warm-up return
Scored(m) ==
  {i \in Accepted(m) : obs[m][i].before.tickCount >= MIN_TICKS_FOR_DETECTION}

\* C35 as stated: the volume Z-score computed for an accepted tick is never
\* below 0.
VolumeZNeverNegative ==
  \A m \in Markets : \A i \in Scored(m) : VolumeZBefore(obs[m][i]) >= 0

\* C35: the deltaVolume of an accepted tick is never below 0, while its
\* volume Z-score is below 0 whenever the delta is under the pre-update
\* volume mean; what is floored is the boost: with a volume Z-score below 0
\* the adjusted score of the tick is |priceZ|, a boost of exactly 1.
VolumeBoostNeverBelowOne ==
  \A m \in Markets :
    /\ \A i \in Scored(m) : obs[m][i].deltaVolume >= 0
    /\ \A p \in Pollers :
         (/\ task[p][m].pc \in {"notify", "store"}
          /\ Len(obs[m]) \in Scored(m)
          /\ VolumeZBefore(obs[m][Len(obs[m])]) < 0)
           => task[p][m].alertHash[2] = Abs(PriceZBefore(obs[m][Len(obs[m])]))

NegativeVolumeZ ==
  \E p \in Pollers, m \in Markets :
    /\ task[p][m].pc \in {"notify", "store"}
    /\ Len(obs[m]) \in Scored(m)
    /\ VolumeZBefore(obs[m][Len(obs[m])]) < 0
    /\ PriceZBefore(obs[m][Len(obs[m])]) # 0

\* ------------------------------------------------------------------ C36
\* the accepted ticks of market m in the order they were consumed, and the
\* same ticks as the store hands a history over, newest first
AcceptedTicks(m) == SelectSeq(obs[m], LAMBDA o : o.gate # "filters")
NewestFirst(s) == [i \in 1..Len(s) |-> s[Len(s) + 1 - i]]

\* C36: for a market first seen with an empty store, the EWMA row reached by
\* consuming the accepted ticks t1..tk one by one through evaluateStream is
\* the state initializeEwmaFromTicks computes from the same k ticks.
OnlineEqualsSeeded ==
  \A m \in Markets :
    (~warmAtStart[m] /\ ewma[m] # NoRow)
      => ewma[m] = initializeEwmaFromTicks(NewestFirst(AcceptedTicks(m)))

\* ------------------------------------------------------------------ C37
\* the calls of refreshStreams that have not settled
WalksInProgress == (IF WalkRunning THEN 1 ELSE 0) + sched.overlap

\* C37: at most one catalog walk is in progress at any time, also when a
\* walk outlasts the period of the hourly timer.
AtMostOneWalk == WalksInProgress <= 1

\* ------------------------------------------------------------------ C38
\* C38: evaluateStream writes the alert row and returns true only when a
\* notification for the tick was handed to the messaging transport: a market
\* has an alert row, and a task reports alertSent, only if a notification
\* was delivered for the market.
AlertOnlyIfDelivered ==
  \A m \in Markets :
    /\ alerts[m] # NoRow => Len(sentAt[m]) > 0
    /\ \A p \in Pollers : task[p][m].alertSent => Len(sentAt[m]) > 0

\* ------------------------------------------------------------------ C39
\* The ticks ever appended to the filtered table of m.  The table itself
\* forgets them beyond TICKS_LIMIT; the raw table, while it has pruned
\* nothing, holds a row for every append to either table, and those of the
\* filtered table are the rows that pass the filters.
Appended(m) == Cardinality({i \in 1..Len(raw[m]) : ~FilteredOut(raw[m][i])})

\* C39: from an empty store and without a storage failure, whenever no
\* collectTickForStream for a market is in flight, the tickCount of its EWMA
\* row is the number of ticks ever appended to its filtered table, and it
\* has no EWMA row when none was appended.
TickCountIsAppended ==
  \A m \in Markets :
    (~warmAtStart[m] /\ InFlight(m) = {} /\ Len(obs[m]) <= RAW_TICKS_LIMIT) =>
      /\ Len(ticks[m]) = Min(Appended(m), TICKS_LIMIT)
      /\ IF Appended(m) = 0 THEN ewma[m] = NoRow
         ELSE ewma[m] # NoRow /\ ewma[m].tickCount = Appended(m)

CountedBeyondRetention ==
  \E m \in Markets :
    /\ ~warmAtStart[m] /\ InFlight(m) = {}
    /\ ewma[m] # NoRow
    /\ Len(ticks[m]) = TICKS_LIMIT
    /\ ewma[m].tickCount > TICKS_LIMIT

====
